---- MODULE Spec2Model ----
(***************************************************************************)
(* Verification model of rosu-pp: the osu! legacy score simulators         *)
(* (batch and gradual), the osu! score-state generation with its           *)
(* hit-result generators, and the per-mode difficulty-object chain         *)
(* construction.                                                           *)
(*                                                                         *)
(* f64 values are modelled as exact rationals.  Times are carried as an    *)
(* integer number of half milliseconds so that round_ties_even is a real   *)
(* conversion; accuracies are carried as a numerator over AccDen.          *)
(***************************************************************************)
EXTENDS Integers, Sequences, FiniteSets, TLC

VARIABLES
    hit_objects,   \* score: the map's objects (input)
    breaks,        \* score: the map's break periods (input)
    map_attrs,     \* score: hp / od / cs of the map (input)
    sim,           \* score: the GradualLegacyScoreSimulator
    returned,      \* score: attributes returned by each simulate_next call so far
    hung,          \* score: a simulate_next call entered a loop that makes no progress
    params,        \* generators: the OsuHitResultParams handed to a generator (input)
    result,        \* generators: None, or the generator called and the OsuHitResults it returned
    perf,          \* performance: the OsuPerformance builder
    diff_attrs,    \* performance: the OsuDifficultyAttributes it was created from
    outcome,       \* performance: None, or what generate_state returned
    chain_in,      \* chain: mode, hit objects and cutoff handed to create_difficulty_objects
    build,         \* chain: position of create_difficulty_objects and the chain built so far
    call,          \* function call: None, or the function called and its arguments
    ret            \* function call: None, or what the call returned

scoreVars == <<hit_objects, breaks, map_attrs, sim, returned, hung>>

genVars == <<params, result>>

perfVars == <<perf, diff_attrs, outcome>>

chainVars == <<chain_in, build>>

fnVars == <<call, ret>>

vars == <<scoreVars, genVars, perfVars, chainVars, fnVars>>

(***************************************************************************)
(* Arithmetic helpers                                                      *)
(***************************************************************************)
Min(a, b) == IF a <= b THEN a ELSE b

Max(a, b) == IF a >= b THEN a ELSE b

Abs(a) == IF a >= 0 THEN a ELSE -a

\* Rust's integer `/`: truncation toward zero.
TruncDiv(a, b) == IF (a >= 0) = (b > 0) THEN Abs(a) \div Abs(b) ELSE -(Abs(a) \div Abs(b))

\* floor(num / den) for den > 0.
FloorDiv(num, den) == num \div den

\* ceil(num / den) for den > 0.
CeilDiv(num, den) == -((-num) \div den)

\* f64::round_ties_even of the rational num / den, den > 0.
RoundTiesEvenRat(num, den) ==
    LET fl == FloorDiv(num, den)
        twice == 2 * (num - fl * den)
    IN  IF twice < den THEN fl
        ELSE IF twice > den THEN fl + 1
        ELSE IF fl % 2 = 0 THEN fl ELSE fl + 1

I32Max == 2147483647

I32Min == -I32Max - 1

\* `x as i32` for an integral f64: saturating.
AsI32(x) == IF x > I32Max THEN I32Max ELSE IF x < I32Min THEN I32Min ELSE x

None == <<>>

Some(x) == <<x>>

IsSome(o) == Len(o) = 1

UnwrapOr(o, d) == IF IsSome(o) THEN o[1] ELSE d

(***************************************************************************)
(* Legacy score simulation                                                 *)
(***************************************************************************)

\* round_time: f64 milliseconds (here: half milliseconds) to i32 milliseconds.
RoundTime(t) == RoundTiesEvenRat(t, 2)

\* calculate_difficulty_peppy_stars
CalculateDifficultyPeppyStars(attrs, object_count, drain_len) ==
    LET \* object_to_drain_ratio as the rational rn / rd
        raw_neg == (object_count >= 0) /= (drain_len > 0)
        rn == IF drain_len = 0 THEN 16
              ELSE IF raw_neg /\ object_count /= 0 THEN 0
              ELSE IF 8 * Abs(object_count) > 16 * Abs(drain_len) THEN 16 * Abs(drain_len)
              ELSE 8 * Abs(object_count)
        rd == IF drain_len = 0 \/ (raw_neg /\ object_count /= 0) THEN 1 ELSE Abs(drain_len)
        sum == attrs.hp + attrs.od + attrs.cs
    IN  RoundTiesEvenRat(5 * (sum * rd + rn), 38 * rd)

Call(add, bonus, inc, score, bonus_result) ==
    [add |-> add, bonus |-> bonus, inc |-> inc, score |-> score, bonus_result |-> bonus_result]

\* HitResult::base_score for GameMode::Osu
BaseScore(hit_result) ==
    CASE hit_result = "SmallBonus" -> 10
      [] hit_result = "LargeBonus" -> 50
      [] OTHER -> 0

RECURSIVE SpinnerCalls(_, _, _)
\* the `for i in 0..=total_half_spins_possible` loop of simulate_hit
SpinnerCalls(i, total, before_bonus) ==
    IF i > total THEN <<>>
    ELSE (IF i > before_bonus /\ (i - before_bonus) % 2 = 0
             THEN <<Call(FALSE, TRUE, FALSE, 1100, "LargeBonus")>>
          ELSE IF i > 1 /\ i % 2 = 0
             THEN <<Call(FALSE, TRUE, FALSE, 100, "SmallBonus")>>
          ELSE <<>>)
         \o SpinnerCalls(i + 1, total, before_bonus)

\* simulate_hit: the calls of unrolled_recursion one object makes, in order
SimulateHitCalls(obj) ==
    CASE obj.kind = "Circle" -> <<Call(TRUE, FALSE, TRUE, 300, "None")>>
      [] obj.kind = "Slider" ->
            <<Call(FALSE, FALSE, TRUE, 30, "None")>>
            \o [i \in 1..Len(obj.nested) |->
                  IF obj.nested[i] = "Tick"
                     THEN Call(FALSE, FALSE, TRUE, 10, "None")
                     ELSE Call(FALSE, FALSE, TRUE, 30, "None")]
            \o <<Call(TRUE, FALSE, FALSE, 300, "None")>>
      [] obj.kind = "Spinner" ->
            LET total == TruncDiv(obj.duration * 477 * 2, 60 * 1000)
                required == TruncDiv(obj.duration * 3, 1000)
            IN  SpinnerCalls(0, total, required + 3)
                \o <<Call(TRUE, FALSE, TRUE, 300, "None")>>

\* gradual.rs carries its own copy of simulate_hit
GradualSimulateHitCalls(obj) == SimulateHitCalls(obj)

DefaultAttrs ==
    [accuracy_score |-> 0, combo_score |-> 0, bonus_score_ratio |-> <<0, 1>>,
     bonus_score |-> 0, max_combo |-> 0]

DefaultInner == [legacy_bonus_score |-> 0, standardised_bonus_score |-> 0, combo |-> 0]

\* LegacyScoreSimulatorInner::unrolled_recursion
InnerUnrolledRecursion(inner, attrs, c) ==
    [factor |-> IF c.add THEN Some(Max(inner.combo - 1, 0) * TruncDiv(c.score, 25)) ELSE None,
     inner  |-> [legacy_bonus_score |->
                     inner.legacy_bonus_score + (IF c.bonus THEN c.score ELSE 0),
                 standardised_bonus_score |->
                     inner.standardised_bonus_score
                         + (IF c.bonus THEN BaseScore(c.bonus_result) ELSE 0),
                 combo |-> inner.combo + (IF c.inc THEN 1 ELSE 0)],
     attrs  |-> [attrs EXCEPT !.accuracy_score = @ + (IF c.bonus THEN 0 ELSE c.score)]]

\* LegacyScoreSimulatorInner::finalize
Finalize(inner, attrs) ==
    [attrs EXCEPT !.bonus_score_ratio =
                      IF inner.legacy_bonus_score = 0 THEN <<0, 1>>
                      ELSE <<inner.standardised_bonus_score, inner.legacy_bonus_score>>,
                  !.bonus_score = inner.legacy_bonus_score,
                  !.max_combo = inner.combo]

(***************************************************************************)
(* GradualLegacyScoreSimulator                                             *)
(***************************************************************************)

\* GradualLegacyScoreSimulator::new
NewGradual ==
    [attrs |-> DefaultAttrs, inner |-> DefaultInner, combo_score_factors |-> <<>>,
     breaks_pos |-> 1, elapsed_curr_break |-> None, break_len_prelim |-> 0,
     object_count |-> 0, start_time |-> None, prev_score_multiplier |-> None]

\* GradualLegacyScoreSimulator::break_len
BreakLen(s) == s.break_len_prelim + UnwrapOr(s.elapsed_curr_break, 0)

\* one iteration of the `while let Some(b) = self.breaks.peek()` loop; only
\* evaluated when the loop condition and the first `if` let the body run
BreakLoopBody(s, brks, obj) ==
    LET b == brks[s.breaks_pos]
    IN  IF b.end_time < obj.start_time
        THEN [s EXCEPT !.break_len_prelim = @ + RoundTime(b.end_time) - RoundTime(b.start_time),
                       !.elapsed_curr_break = None,
                       !.breaks_pos = @ + 1]
        ELSE [s EXCEPT !.elapsed_curr_break =
                  Some(Min(RoundTime(b.end_time), RoundTime(obj.start_time))
                       - RoundTime(b.start_time))]

RECURSIVE BreakLoop(_, _, _)
\* the whole while loop of score_multiplier.  An iteration that leaves the
\* simulator exactly as it found it repeats forever: diverged = TRUE.
BreakLoop(s, brks, obj) ==
    IF s.breaks_pos > Len(brks) THEN [s |-> s, diverged |-> FALSE]
    ELSE IF brks[s.breaks_pos].start_time >= obj.start_time THEN [s |-> s, diverged |-> FALSE]
    ELSE LET s2 == BreakLoopBody(s, brks, obj)
         IN  IF s2 = s THEN [s |-> s, diverged |-> TRUE]
             ELSE BreakLoop(s2, brks, obj)

\* GradualLegacyScoreSimulator::score_multiplier, after its while loop
GradualScoreMultiplier(s, attrs, obj) ==
    LET s1 == [s EXCEPT !.object_count = @ + 1,
                        !.start_time = IF IsSome(@) THEN @ ELSE Some(RoundTime(obj.start_time))]
        end_time == RoundTime(obj.start_time)
        drain_len == TruncDiv(end_time - s1.start_time[1] - BreakLen(s1), 1000)
        mult == CalculateDifficultyPeppyStars(attrs, s1.object_count, drain_len)
    IN  [s1 EXCEPT !.prev_score_multiplier = Some(mult)]

RECURSIVE GradualSimulateHit(_, _)
\* GradualLegacyScoreSimulator::simulate_hit / unrolled_recursion over the calls
GradualSimulateHit(s, calls) ==
    IF calls = <<>> THEN s
    ELSE LET r == InnerUnrolledRecursion(s.inner, s.attrs, Head(calls))
             s2 == [s EXCEPT !.inner = r.inner, !.attrs = r.attrs,
                             !.combo_score_factors =
                                 IF IsSome(r.factor) THEN Append(@, r.factor[1]) ELSE @]
         IN  GradualSimulateHit(s2, Tail(calls))

RECURSIVE SumFactors(_, _)
\* the fold over combo_score_factors in simulate_next
SumFactors(factors, mult) ==
    IF factors = <<>> THEN 0
    ELSE Head(factors) * mult + SumFactors(Tail(factors), mult)

\* GradualLegacyScoreSimulator::simulate_next, from the end of the while loop on
GradualSimulateNext(s, attrs, obj) ==
    LET s1 == GradualScoreMultiplier(s, attrs, obj)
        s2 == GradualSimulateHit(s1, GradualSimulateHitCalls(obj))
        combo_score == SumFactors(s2.combo_score_factors, s1.prev_score_multiplier[1])
        s3 == [s2 EXCEPT !.attrs.combo_score = AsI32(combo_score)]
    IN  [s3 EXCEPT !.attrs = Finalize(s3.inner, s3.attrs)]

(***************************************************************************)
(* OsuLegacyScoreSimulator (batch)                                         *)
(***************************************************************************)

RECURSIVE BatchBreakLen(_, _, _)
\* take_while(|b| b.end_time < last.start_time).map(..).sum()
BatchBreakLen(brks, i, last) ==
    IF i > Len(brks) THEN 0
    ELSE IF ~(brks[i].end_time < last.start_time) THEN 0
    ELSE RoundTime(brks[i].end_time) - RoundTime(brks[i].start_time)
         + BatchBreakLen(brks, i + 1, last)

\* OsuLegacyScoreSimulator::score_multiplier
BatchScoreMultiplier(objs, brks, attrs, passed_objects) ==
    LET object_count == Min(passed_objects, Len(objs))
        last_idx == IF Max(passed_objects - 1, 0) + 1 <= Len(objs)
                       THEN Max(passed_objects - 1, 0) + 1
                       ELSE Len(objs)
        drain_len ==
            IF objs = <<>> THEN 0
            ELSE LET first == objs[1]
                     last == objs[last_idx]
                     break_len == BatchBreakLen(brks, 1, last)
                     full_len == RoundTime(last.start_time) - RoundTime(first.start_time)
                 IN  TruncDiv(full_len - break_len, 1000)
    IN  CalculateDifficultyPeppyStars(attrs, object_count, drain_len)

RECURSIVE BatchSimulateHit(_, _, _)
\* OsuLegacyScoreSimulator::simulate_hit / unrolled_recursion over the calls
BatchSimulateHit(st, calls, mult) ==
    IF calls = <<>> THEN st
    ELSE LET r == InnerUnrolledRecursion(st.inner, st.attrs, Head(calls))
             a2 == IF IsSome(r.factor)
                      THEN [r.attrs EXCEPT !.combo_score = @ + AsI32(r.factor[1] * mult)]
                      ELSE r.attrs
         IN  BatchSimulateHit([inner |-> r.inner, attrs |-> a2], Tail(calls), mult)

RECURSIVE BatchLoop(_, _, _, _, _)
\* `for obj in self.osu_objects.iter().take(self.passed_objects)`
BatchLoop(st, objs, i, passed_objects, mult) ==
    IF i > Len(objs) \/ i > passed_objects THEN st
    ELSE BatchLoop(BatchSimulateHit(st, SimulateHitCalls(objs[i]), mult),
                   objs, i + 1, passed_objects, mult)

\* OsuLegacyScoreSimulator::new followed by ::simulate
BatchSimulate(objs, brks, attrs, passed_objects) ==
    LET mult == BatchScoreMultiplier(objs, brks, attrs, passed_objects)
        st == BatchLoop([inner |-> DefaultInner, attrs |-> DefaultAttrs],
                        objs, 1, passed_objects, mult)
    IN  Finalize(st.inner, st.attrs)

(***************************************************************************)
(* Hit-result generators                                                   *)
(*                                                                         *)
(* An accuracy acc is carried as the integer acc * AccDen.  The pair       *)
(* (tick_score, tick_max) that params.origin.tick_scores(..) yields is     *)
(* carried in the params, since it is the same for every candidate.        *)
(***************************************************************************)
AccDen == 100

\* `x as u32` for a non-NaN f64 that is already integral: negative saturates to 0
AsU32(x) == Max(x, 0)

\* f64::round (half away from zero) of num / den with den > 0
RoundRat(num, den) ==
    IF num >= 0 THEN (2 * num + den) \div (2 * den)
    ELSE -((2 * (-num) + den) \div (2 * den))

HitResults(n300, n100, n50, misses, p) ==
    [large_tick_hits |-> UnwrapOr(p.large_tick_hits, 0),
     small_tick_hits |-> UnwrapOr(p.small_tick_hits, 0),
     slider_end_hits |-> UnwrapOr(p.slider_end_hits, 0),
     n300 |-> n300, n100 |-> n100, n50 |-> n50, misses |-> misses]

\* OsuHitResults::total_hits
TotalHits(h) == h.n300 + h.n100 + h.n50 + h.misses

\* OsuHitResults::accuracy as the rational num / den (0 / 1 when nothing can be scored)
Accuracy(h, tick_score, tick_max) ==
    LET num == 300 * h.n300 + 100 * h.n100 + 50 * h.n50 + tick_score
        den == 300 * TotalHits(h) + tick_max
    IN  IF den = 0 THEN [num |-> 0, den |-> 1] ELSE [num |-> num, den |-> den]

\* f64::abs(params.acc - state.accuracy(params.origin)) as a rational
Dist(p, h) ==
    LET a == Accuracy(h, p.tick_score, p.tick_max)
    IN  [num |-> Abs(p.acc * a.den - AccDen * a.num), den |-> AccDen * a.den]

\* a < b for two non-negative rationals
RatLess(a, b) ==
    IF a.den = b.den THEN a.num < b.num ELSE a.num * b.den < b.num * a.den

RECURSIVE PickClosest(_, _, _, _)
\* `let mut best_dist = f64::MAX; for .. { if dist < best_dist { .. } }`:
\* best is a sequence holding the best candidate so far, empty before the first
PickClosest(p, cands, best, default) ==
    IF cands = <<>> THEN (IF best = <<>> THEN default ELSE best[1])
    ELSE LET c == Head(cands)
         IN  IF best = <<>> \/ RatLess(Dist(p, c), Dist(p, best[1]))
             THEN PickClosest(p, Tail(cands), <<c>>, default)
             ELSE PickClosest(p, Tail(cands), best, default)

\* the candidates of `for x in lo..=hi`
RangeSeq(lo, hi) == [i \in 1..(hi - lo + 1) |-> lo + i - 1]

ParamMisses(p) == Min(p.misses, p.total_hits)

ParamRemain(p) == p.total_hits - ParamMisses(p)

\* params.acc * f64::from(300 * params.total_hits + tick_max), times AccDen
TargetTotal(p) == p.acc * (300 * p.total_hits + p.tick_max)

\* closure compute_n100_n50
ComputeN100N50(p, n300_in) ==
    LET remain0 == ParamRemain(p)
        n300 == Min(n300_in, remain0)
        raw_num == TargetTotal(p) - AccDen * (50 * remain0 + 250 * n300 + p.tick_score)
        raw_den == 50 * AccDen
        remain == remain0 - n300
        min100 == Min(remain, AsU32(FloorDiv(raw_num, raw_den)))
        max100 == Min(remain, AsU32(CeilDiv(raw_num, raw_den)))
        cands == [i \in 1..(max100 - min100 + 1) |->
                    HitResults(n300, min100 + i - 1, remain - (min100 + i - 1),
                               ParamMisses(p), p)]
    IN  PickClosest(p, cands, <<>>, HitResults(n300, 0, remain, ParamMisses(p), p))

\* compute_n300_n50 with the misses taken off the supplied n100 a second time
ComputeN300N50MissesTwice(p, n100_in) ==
    LET remain0 == ParamRemain(p)
        n100 == Min(n100_in, Max(remain0 - ParamMisses(p), 0))
        remain == remain0 - n100
    IN  HitResults(0, n100, remain, ParamMisses(p), p)

\* closure compute_n300_n50
ComputeN300N50(p, n100_in) ==
    LET remain0 == ParamRemain(p)
        n100 == Min(n100_in, remain0)
        raw_num == TargetTotal(p) - AccDen * (50 * remain0 + 50 * n100 + p.tick_score)
        raw_den == 250 * AccDen
        remain == remain0 - n100
        min300 == Min(remain, AsU32(FloorDiv(raw_num, raw_den)))
        max300 == Min(remain, AsU32(CeilDiv(raw_num, raw_den)))
        cands == [i \in 1..(max300 - min300 + 1) |->
                    HitResults(min300 + i - 1, n100, remain - (min300 + i - 1),
                               ParamMisses(p), p)]
    IN  PickClosest(p, cands, <<>>, HitResults(0, n100, remain, ParamMisses(p), p))

\* compute_n300_n100 with n100 derived from the `remain` before n50 is taken off
ComputeN300N100Unshadowed(p, n50_in) ==
    LET remain0 == ParamRemain(p)
        n50 == Min(n50_in, remain0)
        raw_num == TargetTotal(p) + AccDen * 50 * n50
                       - AccDen * (100 * remain0 + p.tick_score)
        raw_den == 200 * AccDen
        remain == remain0 - n50
        min300 == Min(remain, AsU32(FloorDiv(raw_num, raw_den)))
        max300 == Min(remain, AsU32(CeilDiv(raw_num, raw_den)))
        cands == [i \in 1..(max300 - min300 + 1) |->
                    HitResults(min300 + i - 1, remain0 - (min300 + i - 1), n50,
                               ParamMisses(p), p)]
    IN  PickClosest(p, cands, <<>>, HitResults(0, remain0, n50, ParamMisses(p), p))

\* closure compute_n300_n100
ComputeN300N100(p, n50_in) ==
    LET remain0 == ParamRemain(p)
        n50 == Min(n50_in, remain0)
        raw_num == TargetTotal(p) + AccDen * 50 * n50
                       - AccDen * (100 * remain0 + p.tick_score)
        raw_den == 200 * AccDen
        remain == remain0 - n50
        min300 == Min(remain, AsU32(FloorDiv(raw_num, raw_den)))
        max300 == Min(remain, AsU32(CeilDiv(raw_num, raw_den)))
        cands == [i \in 1..(max300 - min300 + 1) |->
                    HitResults(min300 + i - 1, remain - (min300 + i - 1), n50,
                               ParamMisses(p), p)]
    IN  PickClosest(p, cands, <<>>, HitResults(0, remain, n50, ParamMisses(p), p))

\* the `(None, None, None)` arm of Closest::generate_hitresults
ClosestAllMissing(p) ==
    LET remain == ParamRemain(p)
        raw_min_num == TargetTotal(p) - AccDen * (50 * remain + p.tick_score)
        raw_max_num == TargetTotal(p) - AccDen * p.tick_score
        min300 == AsU32(Max(FloorDiv(raw_min_num, 250 * AccDen), 0))
        max300 == Min(remain, 1 + AsU32(CeilDiv(raw_max_num, 300 * AccDen)))
        cands == [i \in 1..(max300 - min300 + 1) |-> ComputeN100N50(p, min300 + i - 1)]
    IN  PickClosest(p, cands, <<>>, HitResults(0, 0, remain, ParamMisses(p), p))

\* <Closest as HitResultGenerator<OsuHitResultParams>>::generate_hitresults
ClosestGenerateHitresults(p) ==
    LET remain == ParamRemain(p)
        misses == ParamMisses(p)
        s300 == IsSome(p.n300)
        s100 == IsSome(p.n100)
        s50 == IsSome(p.n50)
    IN  CASE s300 /\ s100 /\ s50 ->
                LET n300 == Min(p.n300[1], remain)
                    n100 == Min(p.n100[1], remain - n300)
                    n50 == Min(p.n50[1], remain - n300 - n100)
                IN  HitResults(n300, n100, n50, misses, p)
          [] s300 /\ s100 /\ ~s50 ->
                LET n300 == Min(p.n300[1], remain)
                    n100 == Min(p.n100[1], remain - n300)
                IN  HitResults(n300, n100, remain - n300 - n100, misses, p)
          [] s300 /\ ~s100 /\ s50 ->
                LET n300 == Min(p.n300[1], remain)
                    n50 == Min(p.n50[1], remain - n300)
                IN  HitResults(n300, remain - n300 - n50, n50, misses, p)
          [] ~s300 /\ s100 /\ s50 ->
                LET n100 == Min(p.n100[1], remain)
                    n50 == Min(p.n50[1], remain - n100)
                IN  HitResults(remain - n100 - n50, n100, n50, misses, p)
          [] s300 /\ ~s100 /\ ~s50 -> ComputeN100N50(p, p.n300[1])
          [] ~s300 /\ s100 /\ ~s50 -> ComputeN300N50(p, p.n100[1])
          [] ~s300 /\ ~s100 /\ s50 -> ComputeN300N100(p, p.n50[1])
          [] OTHER -> ClosestAllMissing(p)

\* Fast::generate_hitresults without the cap of n100 at `remain - n300`
FastGenerateHitresultsUncapped(p) ==
    LET misses == ParamMisses(p)
        remain == p.total_hits - misses
        target_total == AsU32(RoundRat(p.acc * (300 * p.total_hits + p.tick_max),
                                       50 * AccDen))
        baseline == remain + TruncDiv(p.tick_score, 50)
        delta == Max(target_total - baseline, 0)
        n300 == Min(remain, TruncDiv(delta, 5))
        n100 == delta % 5
        n50 == Max(remain - (n300 + n100), 0)
    IN  IF remain = 0 THEN HitResults(0, 0, 0, misses, p)
        ELSE HitResults(n300, n100, n50, misses, p)

\* <Fast as HitResultGenerator<OsuHitResultParams>>::generate_hitresults
FastGenerateHitresults(p) ==
    LET misses == ParamMisses(p)
        remain == p.total_hits - misses
        target_total == AsU32(RoundRat(p.acc * (300 * p.total_hits + p.tick_max),
                                       50 * AccDen))
        baseline == remain + TruncDiv(p.tick_score, 50)
        delta == Max(target_total - baseline, 0)
        n300 == Min(remain, TruncDiv(delta, 5))
        n100 == Min(remain - n300, delta % 5)
        n50 == Max(remain - (n300 + n100), 0)
    IN  IF remain = 0 THEN HitResults(0, 0, 0, misses, p)
        ELSE HitResults(n300, n100, n50, misses, p)

(***************************************************************************)
(* OsuPerformance::generate_state                                          *)
(***************************************************************************)

\* OsuPerformance::accuracy: the stored acc, times AccDen
PerfAccuracy(pct) == Some(Min(Max(pct, 0), 100))

\* OsuDifficultyAttributes::n_objects
NObjects(attrs) == attrs.n_circles + attrs.n_sliders + attrs.n_spinners

\* the OsuHitResultParams generate_state builds when an accuracy is given
PerfParams(pf, n_objects, misses, tick) ==
    [total_hits |-> n_objects, acc |-> pf.acc[1],
     tick_score |-> tick[1], tick_max |-> tick[2],
     large_tick_hits |-> pf.large_tick_hits,
     small_tick_hits |-> pf.small_tick_hits,
     slider_end_hits |-> pf.slider_end_hits,
     n300 |-> pf.n300, n100 |-> pf.n100, n50 |-> pf.n50, misses |-> misses]

\* `match self.hitresult_generator { Some(generator) => .., None => Fast::.. }`
RunGenerator(pf, p) ==
    IF pf.hitresult_generator = Some("Closest") THEN ClosestGenerateHitresults(p)
    ELSE FastGenerateHitresults(p)

\* the else branch of `if let Some(acc) = self.acc`
NoAccHitresults(pf, attrs, n_objects, misses) ==
    LET ticks ==
            IF ~pf.lazer THEN [se |-> 0, lt |-> 0, st |-> 0]
            ELSE IF ~pf.classic
            THEN [se |-> IF IsSome(pf.slider_end_hits)
                            THEN Min(pf.slider_end_hits[1], attrs.n_sliders)
                            ELSE attrs.n_sliders,
                  lt |-> IF IsSome(pf.large_tick_hits)
                            THEN Min(pf.large_tick_hits[1], attrs.n_large_ticks)
                            ELSE attrs.n_large_ticks,
                  st |-> 0]
            ELSE [se |-> 0,
                  lt |-> IF IsSome(pf.large_tick_hits)
                            THEN Min(pf.large_tick_hits[1],
                                     attrs.n_sliders + attrs.n_large_ticks)
                            ELSE attrs.n_sliders + attrs.n_large_ticks,
                  st |-> IF IsSome(pf.small_tick_hits)
                            THEN Min(pf.small_tick_hits[1], attrs.n_sliders)
                            ELSE attrs.n_sliders]
        n_remaining == n_objects - misses
    IN  [large_tick_hits |-> ticks.lt, small_tick_hits |-> ticks.st,
         slider_end_hits |-> ticks.se,
         n300 |-> IF IsSome(pf.n300) THEN Min(pf.n300[1], n_remaining) ELSE 0,
         n100 |-> IF IsSome(pf.n100) THEN Min(pf.n100[1], n_remaining) ELSE 0,
         n50 |-> IF IsSome(pf.n50) THEN Min(pf.n50[1], n_remaining) ELSE 0,
         misses |-> misses]

\* the priority match with the WorstCase arm taking the BestCase order
ApplyPriorityBestOnly(pf, h, remaining) ==
    CASE ~IsSome(pf.n300) -> [h EXCEPT !.n300 = remaining]
      [] ~IsSome(pf.n100) -> [h EXCEPT !.n100 = remaining]
      [] ~IsSome(pf.n50) -> [h EXCEPT !.n50 = remaining]
      [] OTHER -> [h EXCEPT !.n300 = @ + remaining]

\* `match self.hitresult_priority { .. }` with remaining hits
ApplyPriority(pf, h, remaining) ==
    IF pf.hitresult_priority \in {"BestCase", "Fastest"}
    THEN CASE ~IsSome(pf.n300) -> [h EXCEPT !.n300 = remaining]
           [] ~IsSome(pf.n100) -> [h EXCEPT !.n100 = remaining]
           [] ~IsSome(pf.n50) -> [h EXCEPT !.n50 = remaining]
           [] OTHER -> [h EXCEPT !.n300 = @ + remaining]
    ELSE CASE ~IsSome(pf.n50) -> [h EXCEPT !.n50 = remaining]
           [] ~IsSome(pf.n100) -> [h EXCEPT !.n100 = remaining]
           [] ~IsSome(pf.n300) -> [h EXCEPT !.n300 = remaining]
           [] OTHER -> [h EXCEPT !.n50 = @ + remaining]

\* OsuPerformance::generate_state; tick is what origin.tick_scores(..) yields.
\* generated records what the generator handed back (None without accuracy).
GenerateState(pf, attrs, tick) ==
    LET n_objects == Min(pf.passed_objects, NObjects(attrs))
        misses == IF IsSome(pf.misses) THEN Min(pf.misses[1], n_objects) ELSE 0
        generated == IF IsSome(pf.acc)
                        THEN Some(RunGenerator(pf, PerfParams(pf, n_objects, misses, tick)))
                        ELSE None
        hitresults0 == IF IsSome(pf.acc) THEN generated[1]
                       ELSE NoAccHitresults(pf, attrs, n_objects, misses)
        remaining == Max(n_objects - TotalHits(hitresults0), 0)
        hitresults == ApplyPriority(pf, hitresults0, remaining)
        max_possible_combo == Max(attrs.max_combo - misses, 0)
        max_combo == IF IsSome(pf.combo) THEN Min(pf.combo[1], max_possible_combo)
                     ELSE max_possible_combo
    IN  [state |-> [max_combo |-> max_combo, hitresults |-> hitresults],
         generated |-> generated,
         n_objects |-> n_objects]

\* the builder fields generate_state overwrites before it returns
PerfAfter(pf, st) ==
    [pf EXCEPT !.combo = Some(st.max_combo),
               !.slider_end_hits = Some(st.hitresults.slider_end_hits),
               !.large_tick_hits = Some(st.hitresults.large_tick_hits),
               !.small_tick_hits = Some(st.hitresults.small_tick_hits),
               !.n300 = Some(st.hitresults.n300),
               !.n100 = Some(st.hitresults.n100),
               !.n50 = Some(st.hitresults.n50),
               !.misses = Some(st.hitresults.misses)]

(***************************************************************************)
(* Difficulty-object chain construction                                    *)
(*                                                                         *)
(* A build is [pc, last, next, chain, per_column_objects]: last and next   *)
(* are positions (1-based) in the hit-object list, a reference to a        *)
(* difficulty object is its idx.                                           *)
(***************************************************************************)
TotalColumns == 2

BuildDone(chain) ==
    [pc |-> "done", last |-> 0, next |-> 0, chain |-> chain,
     per_column_objects |-> [c \in 1..TotalColumns |-> <<>>]]

BuildLoop(last, next) ==
    [pc |-> "loop", last |-> last, next |-> next, chain |-> <<>>,
     per_column_objects |-> [c \in 1..TotalColumns |-> <<>>]]

MIN_DELTA_TIME == 25

TAIL_LENIENCY == -36

\* `nested_objects.to_mut()[idx..].rotate_right(1)` for the 0-based idx
RotateRightFrom(nested_objects, idx) ==
    [i \in 1..Len(nested_objects) |->
        IF i <= idx THEN nested_objects[i]
        ELSE IF i = idx + 1 THEN nested_objects[Len(nested_objects)]
        ELSE nested_objects[i - 1]]

\* `nested_objects.to_mut()[idx..].rotate_left(1)` for the 0-based idx
RotateLeftFrom(nested_objects, idx) ==
    [i \in 1..Len(nested_objects) |->
        IF i <= idx THEN nested_objects[i]
        ELSE IF i < Len(nested_objects) THEN nested_objects[i + 1]
        ELSE nested_objects[idx + 1]]

\* OsuDifficultyObject::compute_slider_cursor_pos: the object it leaves and
\* the nested objects in the order its loop visits them.  Durations are
\* even; the cursor positions are not modelled, lazy_end_pos is only marked
\* as computed.
ComputeSliderCursorPos(self) ==
    IF self.base.kind /= "Slider" \/ self.lazy_end_pos /= None
    THEN [this |-> self, nested_objects |-> <<>>]
    ELSE LET start_time == self.base.start_time
             duration == self.base.end_time - start_time
             stored == self.base.nested_objects
             tracking_end_time == Max(start_time + duration + TAIL_LENIENCY,
                                      start_time + duration \div 2)
             ticks == {i \in 1..Len(stored) : stored[i].kind = "Tick"}
             \* rfind: the 0-based position of the last tick
             idx == (CHOOSE i \in ticks : \A j \in ticks : j <= i) - 1
             late == ticks /= {} /\ stored[idx + 1].start_time > tracking_end_time
         IN  [this |-> [self EXCEPT
                           !.lazy_travel_time =
                               (IF late THEN stored[idx + 1].start_time
                                ELSE tracking_end_time) - start_time,
                           !.lazy_end_pos = Some("computed")],
              nested_objects |-> IF late THEN RotateLeftFrom(stored, idx) ELSE stored]

\* set_distances without the floor on the jump time after a slider
SetDistancesNoFloor(self, last_object, last_diff_obj, last_last_diff_obj) ==
    LET travelled ==
            IF self.base.kind = "Slider"
            THEN [self EXCEPT !.travel_time = Max(self.lazy_travel_time, MIN_DELTA_TIME)]
            ELSE self
        jumped == [travelled EXCEPT !.min_jump_time = self.adjusted_delta_time]
        after_slider ==
            IF last_object.kind = "Slider"
            THEN [jumped EXCEPT !.min_jump_time =
                     self.adjusted_delta_time
                        - Max(last_diff_obj[1].lazy_travel_time, MIN_DELTA_TIME)]
            ELSE jumped
    IN  IF self.base.kind = "Spinner" \/ last_object.kind = "Spinner" THEN travelled
        ELSE IF last_diff_obj = None THEN jumped
        ELSE IF last_last_diff_obj = None THEN after_slider
        ELSE IF last_last_diff_obj[1].base.kind /= "Spinner"
             THEN [after_slider EXCEPT !.angle = Some("angle")]
        ELSE after_slider

\* set_distances computing the angle without looking at the kind of the second
\* predecessor
SetDistancesAngleAfterSpinner(self, last_object, last_diff_obj, last_last_diff_obj) ==
    LET travelled ==
            IF self.base.kind = "Slider"
            THEN [self EXCEPT !.travel_time = Max(self.lazy_travel_time, MIN_DELTA_TIME)]
            ELSE self
        jumped == [travelled EXCEPT !.min_jump_time = self.adjusted_delta_time]
        after_slider ==
            IF last_object.kind = "Slider"
            THEN [jumped EXCEPT !.min_jump_time =
                     Max(self.adjusted_delta_time
                            - Max(last_diff_obj[1].lazy_travel_time, MIN_DELTA_TIME),
                         MIN_DELTA_TIME)]
            ELSE jumped
    IN  IF self.base.kind = "Spinner" \/ last_object.kind = "Spinner" THEN travelled
        ELSE IF last_diff_obj = None THEN jumped
        ELSE IF last_last_diff_obj = None THEN after_slider
        ELSE [after_slider EXCEPT !.angle = Some("angle")]

\* OsuDifficultyObject::set_distances, as far as times and the presence of an
\* angle are concerned (clock_rate 1)
SetDistances(self, last_object, last_diff_obj, last_last_diff_obj) ==
    LET travelled ==
            IF self.base.kind = "Slider"
            THEN [self EXCEPT !.travel_time = Max(self.lazy_travel_time, MIN_DELTA_TIME)]
            ELSE self
        jumped == [travelled EXCEPT !.min_jump_time = self.adjusted_delta_time]
        after_slider ==
            IF last_object.kind = "Slider"
            THEN [jumped EXCEPT !.min_jump_time =
                     Max(self.adjusted_delta_time
                            - Max(last_diff_obj[1].lazy_travel_time, MIN_DELTA_TIME),
                         MIN_DELTA_TIME)]
            ELSE jumped
    IN  IF self.base.kind = "Spinner" \/ last_object.kind = "Spinner" THEN travelled
        ELSE IF last_diff_obj = None THEN jumped
        ELSE IF last_last_diff_obj = None THEN after_slider
        ELSE IF last_last_diff_obj[1].base.kind /= "Spinner"
             THEN [after_slider EXCEPT !.angle = Some("angle")]
        ELSE after_slider

\* OsuDifficultyObject::new (clock_rate 1)
OsuDifficultyObjectNew(hit_object, last_object, last_diff_obj, last_last_diff_obj, idx) ==
    LET delta_time == hit_object.start_time - last_object.start_time
        this == [idx |-> idx, base |-> hit_object,
                 start_time |-> hit_object.start_time,
                 delta_time |-> delta_time,
                 adjusted_delta_time |-> Max(delta_time, MIN_DELTA_TIME),
                 min_jump_time |-> 0,
                 travel_time |-> 0,
                 lazy_end_pos |-> None,
                 lazy_travel_time |-> 0,
                 angle |-> None]
    IN  SetDistances(ComputeSliderCursorPos(this).this, last_object, last_diff_obj,
                     last_last_diff_obj)

\* osu DifficultyValues::create_difficulty_objects up to its loop
OsuCreateStart(objs, take) ==
    IF objs = <<>> \/ ~(take > 0) THEN BuildDone(<<>>) ELSE BuildLoop(1, 2)

\* the osu loop stamping the position among the hit objects instead of `idx`
OsuCreateStepHitObjectIdx(b, objs) ==
    LET idx == Len(b.chain)
        last_diff == IF idx > 0 THEN Some(b.chain[idx]) ELSE None
        last_last_diff == IF idx > 1 THEN Some(b.chain[idx - 1]) ELSE None
        diff_object == OsuDifficultyObjectNew(objs[b.next], objs[b.last],
                                              last_diff, last_last_diff, b.next - 1)
    IN  [b EXCEPT !.last = b.next, !.next = @ + 1, !.chain = Append(@, diff_object)]

\* one iteration of `for (idx, h) in osu_objects_iter.enumerate()`
OsuCreateStep(b, objs) ==
    LET idx == Len(b.chain)
        last_diff == IF idx > 0 THEN Some(b.chain[idx]) ELSE None
        last_last_diff == IF idx > 1 THEN Some(b.chain[idx - 1]) ELSE None
        diff_object == OsuDifficultyObjectNew(objs[b.next], objs[b.last],
                                              last_diff, last_last_diff, idx)
    IN  [b EXCEPT !.last = b.next, !.next = @ + 1, !.chain = Append(@, diff_object)]

\* ManiaDifficultyObject::prev_in_column
PrevInColumn(backwards_idx, column_idx, column, per_column_objects) ==
    IF column_idx - (backwards_idx + 1) >= 0
          /\ column_idx - (backwards_idx + 1) + 1 <= Len(per_column_objects[column])
    THEN Some(per_column_objects[column][column_idx - (backwards_idx + 1) + 1])
    ELSE None

\* ManiaDifficultyObject::new without `clone_from` of the predecessor's snapshot
ManiaDifficultyObjectNewNoClone(base, last_object, objects, per_column_objects) ==
    LET idx == Len(objects)
    IN  [idx |-> idx,
         start_time |-> base.start_time,
         delta_time |-> base.start_time - last_object.start_time,
         end_time |-> base.end_time,
         column |-> base.column,
         prev_hit_objects |->
             [c \in 1..TotalColumns |->
                 IF idx > 0 /\ objects[idx].column = c THEN Some(objects[idx].idx)
                 ELSE None],
         column_strain_time |-> 0]

\* ManiaDifficultyObject::new
ManiaDifficultyObjectNew(base, last_object, objects, per_column_objects) ==
    LET idx == Len(objects)
        column == base.column
        column_idx == Len(per_column_objects[column])
        prev_col == PrevInColumn(0, column_idx, column, per_column_objects)
        prev_hit_objects ==
            IF idx > 0
            THEN [objects[idx].prev_hit_objects EXCEPT
                      ![objects[idx].column] = Some(objects[idx].idx)]
            ELSE [c \in 1..TotalColumns |-> None]
    IN  [idx |-> idx,
         start_time |-> base.start_time,
         delta_time |-> base.start_time - last_object.start_time,
         end_time |-> base.end_time,
         column |-> column,
         prev_hit_objects |-> prev_hit_objects,
         column_strain_time |->
             base.start_time - (IF IsSome(prev_col)
                                   THEN objects[prev_col[1] + 1].start_time
                                   ELSE base.start_time)]

\* mania DifficultyValues::create_difficulty_objects up to its loop
ManiaCreateStart(objs) ==
    IF objs = <<>> THEN BuildDone(<<>>) ELSE BuildLoop(1, 2)

\* one iteration of `for curr in mania_objects`
ManiaCreateStep(b, objs) ==
    LET curr_obj == ManiaDifficultyObjectNew(objs[b.next], objs[b.last], b.chain,
                                             b.per_column_objects)
    IN  [b EXCEPT !.last = b.next, !.next = @ + 1,
                  !.chain = Append(@, curr_obj),
                  !.per_column_objects[curr_obj.column] = Append(@, curr_obj.idx)]

\* TaikoDifficultyObject::new, as far as the chain is concerned
TaikoDifficultyObjectNew(curr, last_object, idx) ==
    [idx |-> idx,
     start_time |-> curr.start_time,
     delta_time |-> curr.start_time - last_object.start_time]

\* taiko's start without `.skip(1)`: the first hit object becomes `last`
TaikoCreateStartNoSkip(objs) ==
    IF objs = <<>> THEN BuildDone(<<>>) ELSE BuildLoop(1, 2)

\* taiko DifficultyValues::create_difficulty_objects up to its loop:
\* `.skip(1)` drops the first hit object, `.next()` makes the second one `last`
TaikoCreateStart(objs) ==
    IF Len(objs) < 2 THEN BuildDone(<<>>) ELSE BuildLoop(2, 3)

\* one iteration of `for (i, curr) in hit_objects_iter.enumerate()`
TaikoCreateStep(b, objs) ==
    LET i == Len(b.chain)
        diff_object == TaikoDifficultyObjectNew(objs[b.next], objs[b.last], i)
    IN  [b EXCEPT !.last = b.next, !.next = @ + 1, !.chain = Append(@, diff_object)]

(***************************************************************************)
(* Non-negative f64 values by class: exactly 0, a positive finite number,  *)
(* +infinity, or NaN.  The operations are those of IEEE 754 on the classes. *)
(***************************************************************************)
\* a + b
FAdd(a, b) ==
    IF a = "NaN" \/ b = "NaN" THEN "NaN"
    ELSE IF a = "Inf" \/ b = "Inf" THEN "Inf"
    ELSE IF a = "Pos" \/ b = "Pos" THEN "Pos" ELSE "Zero"

\* a * b
FMul(a, b) ==
    IF a = "NaN" \/ b = "NaN" THEN "NaN"
    ELSE IF {a, b} = {"Zero", "Inf"} THEN "NaN"
    ELSE IF a = "Zero" \/ b = "Zero" THEN "Zero"
    ELSE IF a = "Inf" \/ b = "Inf" THEN "Inf" ELSE "Pos"

\* a / b
FDiv(a, b) ==
    IF a = "NaN" \/ b = "NaN" THEN "NaN"
    ELSE IF a = b /\ a \in {"Zero", "Inf"} THEN "NaN"
    ELSE IF b = "Zero" THEN "Inf"
    ELSE IF b = "Inf" THEN "Zero"
    ELSE a

(***************************************************************************)
(* Taiko DifficultyValues::eval                                            *)
(*                                                                         *)
(* A skill is the sequence of its strain peaks; the four skills have a     *)
(* peak per section, so a map is a sequence of records with one peak per   *)
(* skill.  The object strains are taken to be the same sequence.           *)
(***************************************************************************)

\* StrainSkill::difficulty_value: the weighted sum of the peaks
SkillDifficultyValue(peaks, skill) ==
    IF \E i \in 1..Len(peaks) : peaks[i][skill] = "Pos" THEN "Pos" ELSE "Zero"

\* combined_difficulty_value: <<combined rating, consistency factor>>.
\* combine_peaks::iteration multiplies each peak by its skill's constants, takes
\* util::difficulty::norm, (x^p + y^p + ..)^(1/p), and keeps the peaks > 0
CombinedDifficultyValue(peaks, is_relax, is_convert, pattern_multiplier, strain_length_bonus) ==
    LET iteration(pk) ==
            LET rhythm_peak == FMul(FMul(pk.rhythm, "Pos"), pattern_multiplier)
                color_peak == FMul(pk.color, IF is_relax THEN "Zero" ELSE "Pos")
                reading_peak == FMul(pk.reading, "Pos")
                stamina_peak ==
                    FDiv(FMul(FMul(pk.stamina, "Pos"), strain_length_bonus), "Pos")
            IN  FAdd(FAdd(FAdd(color_peak, stamina_peak), rhythm_peak), reading_peak)
        combined == SelectSeq([i \in 1..Len(peaks) |-> iteration(peaks[i])],
                              LAMBDA x : x \in {"Pos", "Inf"})
        sum == IF \E i \in 1..Len(combined) : combined[i] = "Inf" THEN "Inf" ELSE "Pos"
    IN  IF combined = <<>> THEN <<"Zero", "Zero">>
        ELSE <<sum, FDiv(sum, FMul(sum, "Pos"))>>

\* DifficultyValues::eval
TaikoEval(in) ==
    LET rhythm_skill == FMul(SkillDifficultyValue(in.peaks, "rhythm"), "Pos")
        reading_skill == FMul(SkillDifficultyValue(in.peaks, "reading"), "Pos")
        color_skill == FMul(SkillDifficultyValue(in.peaks, "color"), "Pos")
        stamina_skill == FMul(SkillDifficultyValue(in.peaks, "stamina"), "Pos")
        mono_stamina_rating == FMul(in.mono_stamina, "Pos")
        mono_stamina_factor ==
            IF stamina_skill /= "Zero" THEN FDiv(mono_stamina_rating, stamina_skill)
            ELSE "Pos"
        pattern_multiplier == FMul(stamina_skill, color_skill)
        strain_length_bonus == "Pos"
        combined == CombinedDifficultyValue(in.peaks, in.is_relax, in.is_convert,
                                            pattern_multiplier, strain_length_bonus)
        \* rescale: 10.43 * ln(stars / 8 + 1) keeps the class of stars >= 0
        star_rating == FMul(combined[1], "Pos")
        skill_rating ==
            FDiv(star_rating,
                 FAdd(FAdd(FAdd(rhythm_skill, reading_skill), color_skill), stamina_skill))
        color_difficulty == FMul(color_skill, skill_rating)
        stamina_difficulty == FMul(stamina_skill, skill_rating)
    IN  [rhythm |-> FMul(rhythm_skill, skill_rating),
         reading |-> FMul(reading_skill, skill_rating),
         color |-> color_difficulty,
         stamina |-> stamina_difficulty,
         mono_stamina_factor |-> mono_stamina_factor,
         mechanical_difficulty |-> FAdd(color_difficulty, stamina_difficulty),
         consistency_factor |-> combined[2],
         stars |-> star_rating]

(***************************************************************************)
(* NestedScorePerObject (osu/utils/legacy_score.rs)                        *)
(*                                                                         *)
(* An f64 quotient is [nan, num, den]: NaN, or the rational num / den.     *)
(***************************************************************************)

\* calculate_spinner_score, for a spinner of `duration` milliseconds
CalculateSpinnerScore(duration) ==
    LET total_half_spins_possible == AsI32(TruncDiv(duration * 477 * 2, 60 * 1000))
        half_spins_required_for_completion == AsI32(TruncDiv(duration * 3, 1000))
        half_spins_required_before_bonus == half_spins_required_for_completion + 3
        full_spins == TruncDiv(total_half_spins_possible, 2)
        bonus_spins0 ==
            TruncDiv(total_half_spins_possible - half_spins_required_before_bonus, 2)
        bonus_spins == Max(bonus_spins0 - TruncDiv(full_spins, 2), 0)
    IN  100 * full_spins + 1000 * bonus_spins

RECURSIVE NestedProcess(_, _, _)
\* InnerNestedScorePerObject::process_next over objects[i..], at most `left` of them
NestedProcess(inner, objects, left) ==
    IF objects = <<>> \/ left = 0 THEN inner
    ELSE LET h == Head(objects)
             counted == [inner EXCEPT !.object_count = @ + 1]
             next == CASE h.kind = "Circle" -> counted
                       [] h.kind = "Slider" ->
                             [counted EXCEPT !.n_sliders = @ + 1,
                                             !.n_repeats = @ + h.repeat_count,
                                             !.amount_of_small_ticks = @ + h.tick_count]
                       [] h.kind = "Spinner" ->
                             [counted EXCEPT !.spinner_score =
                                                 @ + CalculateSpinnerScore(h.duration)]
         IN  NestedProcess(next, Tail(objects), left - 1)

\* NestedScorePerObject::calculate, with InnerNestedScorePerObject::calculate
NestedCalculate(in) ==
    LET inner == NestedProcess([n_sliders |-> 0, n_repeats |-> 0,
                                amount_of_small_ticks |-> 0, spinner_score |-> 0,
                                object_count |-> 0],
                               in.objects, in.passed_objects)
        amount_of_big_ticks == inner.n_sliders * 2 + inner.n_repeats
        slider_score == amount_of_big_ticks * 30 + inner.amount_of_small_ticks * 10
    IN  [nan |-> (slider_score + inner.spinner_score = 0 /\ inner.object_count = 0),
         num |-> slider_score + inner.spinner_score,
         den |-> inner.object_count]

(***************************************************************************)
(* Osu evaluators, by the objects they read                                *)
(*                                                                         *)
(* A chain is a sequence of difficulty objects, chain[i].idx = i - 1.  An  *)
(* evaluation is [reads, ..]: reads is the set of idx of the chain objects *)
(* whose fields the evaluator uses.                                        *)
(***************************************************************************)
HISTORY_TIME_MAX == 5000

HISTORY_OBJECTS_MAX == 32

\* IDifficultyObject::previous: the idx of the object backwards_idx + 1 before curr
Previous(curr, backwards_idx, diff_objects) ==
    IF curr.idx - (backwards_idx + 1) >= 0 /\ curr.idx - (backwards_idx + 1) < Len(diff_objects)
    THEN Some(curr.idx - (backwards_idx + 1)) ELSE None

\* IDifficultyObject::next: the idx of the object forwards_idx + 1 after curr
Next(curr, forwards_idx, diff_objects) ==
    IF curr.idx + (forwards_idx + 1) < Len(diff_objects)
    THEN Some(curr.idx + (forwards_idx + 1)) ELSE None

\* OsuDifficultyObject::get_doubletapness(next, hit_window) > 0.0, next an idx:
\* 1 - speed_ratio^(1 - window_ratio) is positive iff both ratios are below 1
GetDoubletapness(self, next, diff_objects, hit_window) ==
    IF next = None THEN FALSE
    ELSE LET hw == IF self.is_spinner THEN 0 ELSE hit_window
             curr_delta_time == Max(self.delta_time, 1)
             next_delta_time == Max(diff_objects[next[1] + 1].delta_time, 1)
             delta_diff == Abs(next_delta_time - curr_delta_time)
         IN  /\ curr_delta_time < Max(curr_delta_time, delta_diff)
             /\ hw > 0 /\ curr_delta_time < hw

\* the sign (-1, 0 or 1) of what SpeedEvaluator::evaluate_diff_of returns for a
\* curr that is no spinner: (1 + speed_bonus + dist_bonus) * 1000 / strain_time
\* times 1 - doubletapness, for distances that are not negative.
\* speed_bonus is positive iff the capped strain time is below 75 ms (200 BPM);
\* 1 - doubletapness is speed_ratio^(1 - window_ratio), a positive number.
SpeedDifficultySign(curr, osu_prev_obj, diff_objects, hit_window, autopilot) ==
    LET sgn(x) == IF x > 0 THEN 1 ELSE IF x < 0 THEN -1 ELSE 0
        strain_time == curr.adjusted_delta_time
        \* strain_time / clamp(strain_time / hit_window / 0.93, 0.92, 1.0) < 75
        fast == IF 100 * strain_time >= 93 * hit_window THEN strain_time < 75
                ELSE IF 2500 * strain_time <= 2139 * hit_window THEN 25 * strain_time < 1725
                ELSE 93 * hit_window < 7500
        speed_bonus == IF fast THEN 1 ELSE 0
        travel_dist == IF osu_prev_obj = None THEN 0
                       ELSE diff_objects[osu_prev_obj[1] + 1].travel_dist
        dist == Min(125, travel_dist + curr.min_jump_dist)
        dist_bonus == IF autopilot THEN 0 ELSE sgn(dist) * sgn(curr.small_circle_bonus)
        difficulty == sgn(1 + speed_bonus + dist_bonus) * sgn(strain_time)
        doubletapness == 1
    IN  difficulty * doubletapness

\* SpeedEvaluator::evaluate_diff_of taking the doubletap penalty from next(1)
SpeedEvaluatorSecondNext(curr, diff_objects, hit_window, autopilot) ==
    IF curr.is_spinner THEN [reads |-> {curr.idx}, doubletap |-> FALSE, sign |-> 0]
    ELSE LET osu_prev_obj == Previous(curr, 0, diff_objects)
             osu_next_obj == Next(curr, 1, diff_objects)
         IN  [reads |-> {curr.idx}
                           \cup {osu_prev_obj[i] : i \in 1..Len(osu_prev_obj)}
                           \cup {osu_next_obj[i] : i \in 1..Len(osu_next_obj)},
              sign |-> SpeedDifficultySign(curr, osu_prev_obj, diff_objects, hit_window,
                                           autopilot),
              doubletap |-> GetDoubletapness(curr, osu_next_obj, diff_objects, hit_window)]

\* SpeedEvaluator::evaluate_diff_of: the objects read and whether the
\* doubletap penalty applies
SpeedEvaluator(curr, diff_objects, hit_window, autopilot) ==
    IF curr.is_spinner THEN [reads |-> {curr.idx}, doubletap |-> FALSE, sign |-> 0]
    ELSE LET osu_prev_obj == Previous(curr, 0, diff_objects)
             osu_next_obj == Next(curr, 0, diff_objects)
         IN  [reads |-> {curr.idx}
                           \cup {osu_prev_obj[i] : i \in 1..Len(osu_prev_obj)}
                           \cup {osu_next_obj[i] : i \in 1..Len(osu_next_obj)},
              sign |-> SpeedDifficultySign(curr, osu_prev_obj, diff_objects, hit_window,
                                           autopilot),
              doubletap |-> GetDoubletapness(curr, osu_next_obj, diff_objects, hit_window)]

RECURSIVE RhythmStartAnyAge(_, _, _)
\* the while loop bounded by historical_note_count only
RhythmStartAnyAge(curr, diff_objects, rhythm_start) ==
    LET prev == Previous(curr, rhythm_start, diff_objects)
        historical_note_count == Min(curr.idx, HISTORY_OBJECTS_MAX)
    IN  IF /\ prev /= None
           /\ rhythm_start + 2 < historical_note_count
        THEN RhythmStartAnyAge(curr, diff_objects, rhythm_start + 1)
        ELSE rhythm_start

RECURSIVE RhythmStart(_, _, _)
\* the `while curr.previous(rhythm_start, ..).filter(..).is_some()` loop
RhythmStart(curr, diff_objects, rhythm_start) ==
    LET prev == Previous(curr, rhythm_start, diff_objects)
        historical_note_count == Min(curr.idx, HISTORY_OBJECTS_MAX)
    IN  IF /\ prev /= None
           /\ rhythm_start + 2 < historical_note_count
           /\ curr.start_time - diff_objects[prev[1] + 1].start_time < HISTORY_TIME_MAX
        THEN RhythmStart(curr, diff_objects, rhythm_start + 1)
        ELSE rhythm_start

\* RhythmEvaluator::evaluate_diff_of: the objects read
RhythmEvaluator(curr, diff_objects, hit_window) ==
    IF curr.is_spinner THEN [reads |-> {curr.idx}, doubletap |-> FALSE]
    ELSE LET historical_note_count == Min(curr.idx, HISTORY_OBJECTS_MAX)
             rhythm_start == RhythmStart(curr, diff_objects, 0)
             \* the start times the while loop compares
             probed == {Previous(curr, j, diff_objects)[1] :
                           j \in {k \in 0..rhythm_start :
                                     /\ Previous(curr, k, diff_objects) /= None
                                     /\ k + 2 < historical_note_count}}
             prev_obj == Previous(curr, rhythm_start, diff_objects)
             last_obj == Previous(curr, rhythm_start + 1, diff_objects)
             \* prev_obj, last_obj and every curr_obj of `for i in (1..=rhythm_start).rev()`
             looped == IF prev_obj /= None /\ last_obj /= None /\ rhythm_start >= 1
                       THEN {prev_obj[1], last_obj[1]}
                                \cup {Previous(curr, i - 1, diff_objects)[1] :
                                         i \in 1..rhythm_start}
                       ELSE {}
             next == Next(curr, 0, diff_objects)
         IN  [reads |-> {curr.idx} \cup probed \cup looped
                           \cup {next[i] : i \in 1..Len(next)},
              doubletap |-> GetDoubletapness(curr, next, diff_objects, hit_window)]

(***************************************************************************)
(* Soft counts of the osu skills.  Strains and difficulty values are in    *)
(* thousandths; a result is an enclosure [lo, hi] of the f64 value in      *)
(* thousandths, with `divided` telling whether the division was performed  *)
(* and `nan` whether it was 0 / 0.                                         *)
(***************************************************************************)
SoftZero == [lo |-> 0, hi |-> 0, divided |-> FALSE, nan |-> FALSE]

\* util::difficulty::logistic_exp for the exponent num / den (den > 0):
\* max_value / (1 + e^(num / den)), enclosed through e^floor and e^ceil
LogisticExp(num, den, max_value) ==
    LET \* floor and ceiling of 1000 * e^k for k = -8 .. 9
        exp_lo == <<0, 0, 2, 6, 18, 49, 135, 367, 1000, 2718, 7389, 20085, 54598,
                    148413, 403428, 1096633, 2980957, 8103083>>
        exp_hi == <<1, 1, 3, 7, 19, 50, 136, 368, 1000, 2719, 7390, 20086, 54599,
                    148414, 403429, 1096634, 2980958, 8103084>>
        fl == FloorDiv(num, den)
        ce == CeilDiv(num, den)
        e_lo == IF fl < -8 THEN 0 ELSE exp_lo[Min(fl, 9) + 9]
        e_hi == IF ce < -8 THEN 1 ELSE exp_hi[Min(ce, 9) + 9]
    IN  [lo |-> IF ce > 9 THEN 0 ELSE FloorDiv(max_value * 1000, 1000 + e_hi),
         hi |-> CeilDiv(max_value * 1000, 1000 + e_lo)]

\* count_top_weighted_sliders summing the ratios s / consistent_top_strain
CountTopWeightedSlidersRatio(slider_strains, difficulty_value) ==
    IF slider_strains = <<>> THEN SoftZero
    ELSE IF difficulty_value = 0 THEN SoftZero
    ELSE LET sum[i \in 0..Len(slider_strains)] ==
                 IF i = 0 THEN 0
                 ELSE sum[i - 1] + (10000 * slider_strains[i]) \div difficulty_value
         IN  [lo |-> sum[Len(slider_strains)], hi |-> sum[Len(slider_strains)] + Len(slider_strains),
              divided |-> TRUE, nan |-> FALSE]

\* count_top_weighted_sliders: consistent_top_strain = difficulty_value / 10 and
\* each slider strain s adds logistic(s / consistent_top_strain, 0.88, 10, 1.1),
\* whose exponent 10 * (0.88 - s / consistent_top_strain) is
\* (88 * difficulty_value - 1000 * s) / (10 * difficulty_value)
CountTopWeightedSliders(slider_strains, difficulty_value) ==
    IF slider_strains = <<>> THEN SoftZero
    ELSE IF difficulty_value = 0 THEN SoftZero
    ELSE LET term(s) == LogisticExp(88 * difficulty_value - 1000 * s,
                                    10 * difficulty_value, 1100)
             sum[i \in 0..Len(slider_strains)] ==
                 IF i = 0 THEN [lo |-> 0, hi |-> 0]
                 ELSE [lo |-> sum[i - 1].lo + term(slider_strains[i]).lo,
                       hi |-> sum[i - 1].hi + term(slider_strains[i]).hi]
         IN  [lo |-> sum[Len(slider_strains)].lo, hi |-> sum[Len(slider_strains)].hi,
              divided |-> TRUE, nan |-> FALSE]

\* the sum of 1 / (1 + e^(-(strain / max_strain * 12 - 6))) over the strains,
\* for max_strain >= 0; with max_strain = 0 the terms are 0 / 0 or strain / 0
SoftCountBy(strains, max_strain) ==
    LET term(s) == IF max_strain = 0 THEN [lo |-> 0, hi |-> 1000]
                   ELSE LogisticExp(6 * max_strain - 12 * s, max_strain, 1000)
        sum[i \in 0..Len(strains)] ==
            IF i = 0 THEN [lo |-> 0, hi |-> 0]
            ELSE [lo |-> sum[i - 1].lo + term(strains[i]).lo,
                  hi |-> sum[i - 1].hi + term(strains[i]).hi]
    IN  [lo |-> sum[Len(strains)].lo, hi |-> sum[Len(strains)].hi, divided |-> TRUE,
         nan |-> (max_strain = 0 /\ \E i \in 1..Len(strains) : strains[i] = 0)]

\* the greatest of the strains and 0.0
MaxStrain(strains) ==
    IF strains = <<>> THEN 0 ELSE Max(0, CHOOSE s \in {strains[i] : i \in 1..Len(strains)} :
                                            \A i \in 1..Len(strains) : strains[i] <= s)

\* Aim::get_difficult_sliders without the test of max_slider_strain
GetDifficultSlidersUnguarded(slider_strains) ==
    IF slider_strains = <<>> THEN SoftZero
    ELSE SoftCountBy(slider_strains, MaxStrain(slider_strains))

\* Aim::get_difficult_sliders
GetDifficultSliders(slider_strains) ==
    IF slider_strains = <<>> THEN SoftZero
    ELSE LET max_slider_strain == MaxStrain(slider_strains)
         IN  IF max_slider_strain = 0 THEN SoftZero
             ELSE SoftCountBy(slider_strains, max_slider_strain)

\* Speed::relevant_note_count: max_by(total_cmp).filter(n > 0.0).map_or(0.0, ..)
RelevantNoteCount(strain_skill_object_strains) ==
    IF strain_skill_object_strains = <<>> THEN SoftZero
    ELSE LET max_strain == MaxStrain(strain_skill_object_strains)
         IN  IF ~(max_strain > 0) THEN SoftZero
             ELSE SoftCountBy(strain_skill_object_strains, max_strain)

(***************************************************************************)
(* Catch difficulty objects.  Positions and times are integers.           *)
(***************************************************************************)
NORMALIZED_HALF_CATCHER_WIDTH == 41

ABSOLUTE_PLAYER_POSITIONING_ERROR == 16

\* f32::clamp for min <= max
Clamp(x, min, max) == IF x < min THEN min ELSE IF x > max THEN max ELSE x

\* set_movement_state without the snap after a hyperdash
SetMovementStateNoSnap(self) ==
    LET last_player_pos == UnwrapOr(self.last_object.player_pos, self.last_normalized_pos)
        term == NORMALIZED_HALF_CATCHER_WIDTH - ABSOLUTE_PLAYER_POSITIONING_ERROR
        player_pos == Clamp(last_player_pos, self.normalized_pos - term,
                            self.normalized_pos + term)
    IN  [self EXCEPT !.last_player_pos = last_player_pos,
                     !.player_pos = player_pos,
                     !.dist_moved = player_pos - last_player_pos,
                     !.exact_dist_moved = self.normalized_pos - last_player_pos]

\* CatchDifficultyObject::set_movement_state
SetMovementState(self) ==
    LET last_player_pos == UnwrapOr(self.last_object.player_pos, self.last_normalized_pos)
        term == NORMALIZED_HALF_CATCHER_WIDTH - ABSOLUTE_PLAYER_POSITIONING_ERROR
        player_pos == Clamp(last_player_pos, self.normalized_pos - term,
                            self.normalized_pos + term)
    IN  [self EXCEPT !.last_player_pos = last_player_pos,
                     !.player_pos = IF self.last_object.hyper_dash
                                    THEN self.normalized_pos ELSE player_pos,
                     !.dist_moved = player_pos - last_player_pos,
                     !.exact_dist_moved = self.normalized_pos - last_player_pos]

\* CatchDifficultyObject::new; clock_rate divides the times exactly
CatchDifficultyObjectNew(hit_object, last_object, clock_rate, scaling_factor, last_player_pos, idx) ==
    LET delta_time == (hit_object.start_time - last_object.start_time) \div clock_rate
    IN  SetMovementState(
            [idx |-> idx,
             start_time |-> hit_object.start_time \div clock_rate,
             delta_time |-> delta_time,
             normalized_pos |-> hit_object.effective_x * scaling_factor,
             last_normalized_pos |-> last_object.effective_x * scaling_factor,
             player_pos |-> 0,
             last_player_pos |-> 0,
             dist_moved |-> 0,
             exact_dist_moved |-> 0,
             strain_time |-> Max(delta_time, 40),
             last_object |-> [hyper_dash |-> last_object.hyper_dash,
                              dist_to_hyper_dash |-> last_object.dist_to_hyper_dash,
                              player_pos |-> last_player_pos]])

(***************************************************************************)
(* Mania's Strain skill.  Strains are in thousandths, times in ms.         *)
(***************************************************************************)
RECURSIVE ApplyDecay(_, _, _)
\* apply_decay: value * decay_base^(delta_time / 1000) for a decay_base
\* <<num, den>> and a delta_time of whole seconds
ApplyDecay(value, delta_time, decay_base) ==
    IF delta_time < 1000 THEN value
    ELSE ApplyDecay((value * decay_base[1]) \div decay_base[2], delta_time - 1000, decay_base)

\* the objects curr.prev_hit_objects refers to
PrevHitObjects(curr, objects) ==
    {objects[curr.prev_hit_objects[c][1] + 1] :
        c \in {k \in 1..TotalColumns : curr.prev_hit_objects[k] /= None}}

\* IndividualStrainEvaluator::evaluate_diff_of
IndividualStrainEvaluator(curr, objects) ==
    LET with_bonus == \E mania_prev \in PrevHitObjects(curr, objects) :
                          /\ mania_prev.end_time > curr.end_time + 1
                          /\ curr.start_time > mania_prev.start_time + 1
    IN  IF with_bonus THEN 2500 ELSE 2000

\* OverallStrainEvaluator::evaluate_diff_of; the logistic hold addition is
\* taken at the lower end of its enclosure
OverallStrainEvaluator(curr, objects) ==
    LET prevs == PrevHitObjects(curr, objects)
        is_overlapping == \E p \in prevs : /\ p.end_time > curr.start_time + 1
                                           /\ curr.end_time > p.end_time + 1
                                           /\ curr.start_time > p.start_time + 1
        held == \E p \in prevs : /\ p.end_time > curr.end_time + 1
                                 /\ curr.start_time > p.start_time + 1
        ends == {Abs(curr.end_time - curr.start_time)}
                    \cup {Abs(curr.end_time - p.end_time) : p \in prevs}
        closest_end_time == CHOOSE e \in ends : \A f \in ends : e <= f
        hold_addition == IF is_overlapping
                         THEN LogisticExp(27 * (30 - closest_end_time), 100, 1000).lo
                         ELSE 0
    IN  IF held THEN ((1000 + hold_addition) * 5) \div 4 ELSE 1000 + hold_addition

\* Strain::strain_value_of: the skill it leaves and the value it returns
StrainValueOf(self, curr, objects) ==
    LET individual == ApplyDecay(self.individual_strains[curr.column],
                                 curr.column_strain_time, <<1, 8>>)
                         + IndividualStrainEvaluator(curr, objects)
        highest == IF curr.delta_time <= 1
                   THEN Max(self.highest_individual_strain, individual)
                   ELSE individual
        overall == ApplyDecay(self.overall_strain, curr.delta_time, <<3, 10>>)
                      + OverallStrainEvaluator(curr, objects)
    IN  [skill |-> [self EXCEPT !.individual_strains[curr.column] = individual,
                                !.highest_individual_strain = highest,
                                !.overall_strain = overall],
         value |-> highest + overall - self.current_strain]

\* strain_value_at keeping strain_value_of as the running strain instead of
\* adding it
StrainValueAtUndecayed(self, curr, objects) ==
    LET of == StrainValueOf(self, curr, objects)
    IN  [skill |-> [of.skill EXCEPT !.current_strain = of.value],
         strain_value_of |-> of.value, strain_value_at |-> of.value]

\* StrainDecaySkill::strain_value_at with STRAIN_DECAY_BASE = 1 and
\* SKILL_MULTIPLIER = 1: decay current_strain, then add strain_value_of
StrainValueAt(self, curr, objects) ==
    LET decayed == ApplyDecay(self.current_strain, curr.delta_time, <<1, 1>>)
        of == StrainValueOf([self EXCEPT !.current_strain = decayed], curr, objects)
    IN  [skill |-> [of.skill EXCEPT !.current_strain = decayed + of.value],
         strain_value_of |-> of.value, strain_value_at |-> decayed + of.value]

\* mania DifficultyValues::calculate: the chain is built, then a new Strain
\* skill processes every difficulty object in order
ManiaStrainValues(objs) ==
    LET built[k \in 0..Len(objs)] ==
            IF k = 0 THEN ManiaCreateStart(objs)
            ELSE IF built[k - 1].pc = "loop" /\ built[k - 1].next <= Len(objs)
                 THEN ManiaCreateStep(built[k - 1], objs)
            ELSE built[k - 1]
        diff_objects == built[Len(objs)].chain
        strain[k \in 0..Len(diff_objects)] ==
            IF k = 0
            THEN [skill |-> [individual_strains |-> [c \in 1..TotalColumns |-> 0],
                             highest_individual_strain |-> 0,
                             overall_strain |-> 1000,
                             current_strain |-> 0],
                  values |-> <<>>]
            ELSE LET at == StrainValueAt(strain[k - 1].skill, diff_objects[k], diff_objects)
                 IN  [skill |-> at.skill,
                      values |-> Append(strain[k - 1].values,
                                        [strain_value_of |-> at.strain_value_of,
                                         strain_value_at |-> at.strain_value_at])]
    IN  strain[Len(diff_objects)].values

\* the catch construction loop: each object is built from two neighbouring
\* palpable objects and the player position its predecessor left
CatchCreateDifficultyObjects(palpable_objects, clock_rate) ==
    LET diff_objects[k \in 0..(Len(palpable_objects) - 1)] ==
            IF k = 0 THEN <<>>
            ELSE Append(diff_objects[k - 1],
                        CatchDifficultyObjectNew(
                            palpable_objects[k + 1], palpable_objects[k], clock_rate, 1,
                            IF k = 1 THEN None ELSE Some(diff_objects[k - 1][k - 1].player_pos),
                            k - 1))
    IN  IF palpable_objects = <<>> THEN <<>> ELSE diff_objects[Len(palpable_objects) - 1]

\* MovementEvaluator::evaluate_diff_of: the sign (-1, 0 or 1) of
\* dist_addition / weighted_strain_time and whether the buzz detector zeroed
\* it.  Positions are integers, so |d| > 0.1 is d /= 0 and FloatExt::eq is =.
MovementEvaluator(curr, diff_objects, clock_rate) ==
    LET sgn(x) == IF x > 0 THEN 1 ELSE IF x < 0 THEN -1 ELSE 0
        catch_last_obj == Previous(curr, 0, diff_objects)
        catch_last_last_obj == Previous(curr, 1, diff_objects)
        field(obj, f) == IF obj = None THEN 0 ELSE diff_objects[obj[1] + 1][f]
        last_strain_time == field(catch_last_obj, "strain_time")
        last_dist_moved == field(catch_last_obj, "dist_moved")
        moved == Abs(curr.dist_moved) > 0
        \* |dist_moved|^1.3 / 510
        base_addition == sgn(Abs(curr.dist_moved))
        \* the direction change bonus carries max(1 - (weighted_strain_time / 1000)^3, 0),
        \* weighted_strain_time = strain_time + 13 + 3 / clock_rate
        direction_change ==
            /\ moved /\ curr.idx >= 1 /\ Abs(last_dist_moved) > 0
            /\ sgn(curr.dist_moved) /= sgn(last_dist_moved)
        direction_bonus ==
            IF direction_change /\ clock_rate * (curr.strain_time + 13) + 3 < 1000 * clock_rate
            THEN sgn(last_strain_time + 16) ELSE 0
        movement_bonus == IF moved THEN sgn(Min(Abs(curr.dist_moved), 82)) ELSE 0
        \* 1 + edge_dash_bonus * (20 - dist_to_hyper_dash) / 20 * (..)^1.5
        edge_dash_bonus == IF curr.last_object.hyper_dash THEN 0 ELSE 1
        edge_dash == IF curr.last_object.dist_to_hyper_dash <= 20
                     THEN sgn(20 + edge_dash_bonus * (20 - curr.last_object.dist_to_hyper_dash))
                     ELSE 1
        buzz == /\ curr.idx >= 2
                /\ Abs(curr.exact_dist_moved) <= NORMALIZED_HALF_CATCHER_WIDTH * 2
                /\ curr.exact_dist_moved = -field(catch_last_obj, "exact_dist_moved")
                /\ field(catch_last_obj, "exact_dist_moved")
                      = -field(catch_last_last_obj, "exact_dist_moved")
                /\ curr.strain_time = last_strain_time
                /\ last_strain_time = field(catch_last_last_obj, "strain_time")
        dist_addition == IF buzz THEN 0
                         ELSE sgn(base_addition + direction_bonus + movement_bonus) * edge_dash
    IN  [sign |-> dist_addition * sgn(clock_rate * (curr.strain_time + 13) + 3),
         buzz |-> buzz, direction_change |-> direction_change]

\* the `distinct_and_ordered` vector of DeltaTimeNormalizer::normalize: the
\* delta times of the live objects, each once, inserted in ascending order
DistinctAndOrdered(objects) ==
    LET acc[n \in 0..Len(objects)] ==
            IF n = 0 THEN <<>>
            ELSE LET prev == acc[n - 1]
                     h == objects[n]
                     idx == Cardinality({k \in 1..Len(prev) : prev[k] < h[1].delta_time})
                 IN  IF h = None THEN prev
                     ELSE IF \E k \in 1..Len(prev) : prev[k] = h[1].delta_time THEN prev
                     ELSE SubSeq(prev, 1, idx) \o <<h[1].delta_time>>
                             \o SubSeq(prev, idx + 1, Len(prev))
    IN  acc[Len(objects)]

\* the grouping loop comparing each value with the one just before it
DeltaTimeSetsAdjacent(delta_times, margin_of_error) ==
    LET st[n \in 1..Len(delta_times)] ==
            IF n = 1 THEN [sets |-> <<>>, curr |-> <<delta_times[1]>>]
            ELSE LET p == st[n - 1]
                 IN  IF Abs(delta_times[n] - p.curr[Len(p.curr)]) <= margin_of_error
                     THEN [p EXCEPT !.curr = Append(@, delta_times[n])]
                     ELSE [sets |-> Append(p.sets, p.curr), curr |-> <<delta_times[n]>>]
    IN  IF delta_times = <<>> THEN <<>>
        ELSE Append(st[Len(delta_times)].sets, st[Len(delta_times)].curr)

\* the grouping loop of DeltaTimeNormalizer::normalize: `sets` after it
DeltaTimeSets(delta_times, margin_of_error) ==
    LET st[n \in 1..Len(delta_times)] ==
            IF n = 1 THEN [sets |-> <<>>, curr |-> <<delta_times[1]>>]
            ELSE LET p == st[n - 1]
                 IN  IF Abs(delta_times[n] - p.curr[1]) <= margin_of_error
                     THEN [p EXCEPT !.curr = Append(@, delta_times[n])]
                     ELSE [sets |-> Append(p.sets, p.curr), curr |-> <<delta_times[n]>>]
    IN  IF delta_times = <<>> THEN <<>>
        ELSE Append(st[Len(delta_times)].sets, st[Len(delta_times)].curr)

\* the median of one group, which is already in ascending order; the delta
\* times of the model are even, so that the mean of two of them is exact
Median(set) ==
    LET mid == Len(set) \div 2
    IN  IF Len(set) % 2 = 1 THEN set[mid + 1] ELSE (set[mid] + set[mid + 1]) \div 2

\* DeltaTimeNormalizer::normalize: the distinct delta times, their groups and
\* the value given to every live hit object (keyed by its position)
Normalize(objects, margin_of_error) ==
    LET delta_times == DistinctAndOrdered(objects)
        sets == DeltaTimeSets(delta_times, margin_of_error)
        live == {i \in 1..Len(objects) : objects[i] /= None}
        median_lookup(v) ==
            IF \E s \in 1..Len(sets) : \E k \in 1..Len(sets[s]) : sets[s][k] = v
            THEN Median(sets[CHOOSE s \in 1..Len(sets) :
                                 \E k \in 1..Len(sets[s]) : sets[s][k] = v])
            ELSE v
    IN  [delta_times |-> delta_times,
         sets |-> sets,
         output |-> [i \in live |-> median_lookup(objects[i][1].delta_time)]]

\* n_slider_ends_dropped, as the mathematical difference: the u32 subtraction
\* of the code underflows when it is negative
NSliderEndsDropped(attrs, state) == attrs.n_sliders - state.hitresults.slider_end_hits

\* n_large_tick_miss, as the mathematical difference
NLargeTickMiss(attrs, state) == attrs.n_large_ticks - state.hitresults.large_tick_hits

\* the full-combo threshold OsuPerformance::calculate uses for classic scores,
\* in tenths of a combo
ClassicFullComboThreshold(attrs) == 10 * attrs.max_combo - attrs.n_sliders

\* (num / den) to the power 2.5 exceeds the integer k >= 0
PowfExceeds(num, den, k) == num ^ 5 > k * k * den ^ 5

\* OsuLegacyScoreMissCalculator::calculate_maximum_combo_based_miss_count.
\* full_combo_threshold is in tenths (None on the early return); miss_count is
\* num / den, raised to the power 2.5 when `powf` says so
CalculateMaximumComboBasedMissCount(state, attrs) ==
    LET exact(v) == [powf |-> FALSE, num |-> v, den |-> 1]
        total_imperfect_hits == state.n100 + state.n50 + state.misses
        full_combo_threshold == 10 * attrs.max_combo - attrs.n_circles
        below == 10 * state.max_combo < full_combo_threshold
        num == full_combo_threshold
        den == 10 * Max(state.max_combo, 1)
        capped ==
            IF ~below THEN exact(0)
            ELSE IF PowfExceeds(num, den, total_imperfect_hits)
            THEN exact(total_imperfect_hits)
            ELSE [powf |-> TRUE, num |-> num, den |-> den]
        max_possible_slider_breaks ==
            Min((attrs.max_combo - state.max_combo) \div 2, attrs.n_sliders)
        too_many_breaks ==
            IF capped.powf
            THEN PowfExceeds(num, den, state.misses + max_possible_slider_breaks)
            ELSE capped.num - state.misses > max_possible_slider_breaks
    IN  IF attrs.n_sliders = 0
        THEN [full_combo_threshold |-> None, miss_count |-> exact(state.misses)]
        ELSE [full_combo_threshold |-> Some(full_combo_threshold),
              miss_count |-> IF too_many_breaks
                             THEN exact(state.misses + max_possible_slider_breaks)
                             ELSE capped]

(***************************************************************************)
(* Inputs of the score simulation                                          *)
(***************************************************************************)
MaxObjects == 3

MaxBreaks == 2

\* start times in half milliseconds: 0 ms, 1000 ms, 2000.5 ms, 3500 ms
ObjectTimes == {0, 2000, 4001, 7000}

\* break boundaries in half milliseconds: 500 ms, 1999.5 ms, 3500 ms
BreakTimes == {1000, 3999, 7000}

ObjectShapes ==
    {[kind |-> "Circle", nested |-> <<>>, duration |-> 0],
     [kind |-> "Slider", nested |-> <<"Tick", "Repeat", "Tail">>, duration |-> 0],
     [kind |-> "Spinner", nested |-> <<>>, duration |-> 1000]}

OsuObjects ==
    {[kind |-> sh.kind, nested |-> sh.nested, duration |-> sh.duration, start_time |-> t] :
        sh \in ObjectShapes, t \in ObjectTimes}

BreakPeriods ==
    {p \in [start_time : BreakTimes, end_time : BreakTimes] : p.start_time <= p.end_time}

SeqsUpTo(S, n) == UNION {[1..k -> S] : k \in 0..n}

Sorted(objs) == \A i \in 1..(Len(objs) - 1) : objs[i].start_time <= objs[i + 1].start_time

MapAttrs == {[hp |-> 5, od |-> 8, cs |-> 4], [hp |-> 0, od |-> 0, cs |-> 0]}

(***************************************************************************)
(* Inputs of the hit-result generators                                     *)
(***************************************************************************)
MaxHits == 3

\* accuracies, times AccDen
AccValues == {0, 60, 85, 95, 100}

CountOpts == {None} \cup {Some(k) : k \in 0..(MaxHits + 1)}

\* (tick_score, tick_max) pairs; (0, 0) is what OsuScoreOrigin::Stable yields
TickPairs == {<<0, 0>>, <<30, 60>>, <<150, 180>>}

ParamsSet ==
    {[total_hits |-> th, acc |-> a, n300 |-> c300, n100 |-> c100, n50 |-> c50,
      misses |-> m, tick_score |-> tp[1], tick_max |-> tp[2],
      large_tick_hits |-> lt, small_tick_hits |-> None, slider_end_hits |-> None] :
        th \in 0..MaxHits, a \in AccValues, c300 \in CountOpts, c100 \in CountOpts,
        c50 \in CountOpts, m \in 0..(MaxHits + 1), tp \in TickPairs,
        lt \in {None, Some(1)}}

(***************************************************************************)
(* Inputs of generate_state                                                *)
(***************************************************************************)
MaxCount == 2

\* Difficulty's default passed_objects (no cutoff): larger than any map
NoCutoff == I32Max

\* what the caller hands to OsuPerformance::accuracy, in percent
AccPercents == {-5, 60, 95, 130}

PerfCountOpts == {None} \cup {Some(k) : k \in 0..MaxCount}

Attrs(n_circles, n_sliders, n_spinners, n_large_ticks) ==
    [n_circles |-> n_circles, n_sliders |-> n_sliders, n_spinners |-> n_spinners,
     n_large_ticks |-> n_large_ticks,
     max_combo |-> n_circles + 2 * n_sliders + n_spinners + n_large_ticks]

AttrsSet == {Attrs(0, 0, 0, 0), Attrs(1, 0, 0, 0), Attrs(1, 2, 1, 1)}

Setting(lazer, classic, large, small, slider_end, combo, passed) ==
    [lazer |-> lazer, classic |-> classic, large_tick_hits |-> large,
     small_tick_hits |-> small, slider_end_hits |-> slider_end, combo |-> combo,
     passed_objects |-> passed]

\* score kind, tick hits, combo and cutoff the caller configured
Settings ==
    {Setting(FALSE, FALSE, None, None, None, None, NoCutoff),
     Setting(FALSE, FALSE, Some(3), Some(3), Some(3), Some(2), 2),
     Setting(TRUE, FALSE, None, None, None, None, NoCutoff),
     Setting(TRUE, FALSE, Some(3), None, Some(3), Some(2), NoCutoff),
     Setting(TRUE, FALSE, Some(0), None, Some(1), None, 2),
     Setting(TRUE, TRUE, None, None, None, Some(2), NoCutoff),
     Setting(TRUE, TRUE, Some(3), Some(3), None, None, NoCutoff),
     Setting(TRUE, TRUE, Some(1), Some(0), None, Some(9), 2)}

PerfSet ==
    {[acc |-> a, n300 |-> c300, n100 |-> c100, n50 |-> c50, misses |-> m,
      hitresult_priority |-> pr, hitresult_generator |-> g,
      lazer |-> st.lazer, classic |-> st.classic,
      large_tick_hits |-> st.large_tick_hits, small_tick_hits |-> st.small_tick_hits,
      slider_end_hits |-> st.slider_end_hits, combo |-> st.combo,
      passed_objects |-> st.passed_objects] :
        a \in {None} \cup {PerfAccuracy(x) : x \in AccPercents},
        c300 \in PerfCountOpts, c100 \in PerfCountOpts, c50 \in PerfCountOpts,
        m \in {None, Some(1), Some(5)},
        pr \in {"BestCase", "WorstCase", "Fastest"},
        g \in {None, Some("Fast"), Some("Closest")},
        st \in Settings}

\* the (tick_score, tick_max) pairs the score origin of pf can yield
TickPairsFor(pf) == IF pf.lazer THEN TickPairs ELSE {<<0, 0>>}

(***************************************************************************)
(* Inputs of the chain construction                                        *)
(***************************************************************************)
MaxChain == 4

ChainTimes == {0, 10, 30}

\* a slider lasts 40 ms and has one tick, which is late for the slider at 30
ChainObjects(mode) ==
    {[start_time |-> t, kind |-> k, column |-> c,
      end_time |-> IF k = "Slider" THEN t + 40 ELSE t,
      nested_objects |->
          IF k = "Slider"
          THEN <<[kind |-> "Tick", start_time |-> t + (IF t = 30 THEN 30 ELSE 10)],
                 [kind |-> "Tail", start_time |-> t + 40]>>
          ELSE <<>>] :
        t \in ChainTimes,
        k \in IF mode = "osu" THEN {"Circle", "Slider", "Spinner"} ELSE {"Circle"},
        c \in IF mode = "mania" THEN 1..TotalColumns ELSE {1}}

ChainInputs ==
    {[mode |-> m, objs |-> o, take |-> t] :
        m \in {"osu"}, o \in {x \in SeqsUpTo(ChainObjects("osu"), MaxChain) : Sorted(x)},
        t \in {0, NoCutoff}}
    \cup
    {[mode |-> m, objs |-> o, take |-> t] :
        m \in {"mania"}, o \in {x \in SeqsUpTo(ChainObjects("mania"), MaxChain) : Sorted(x)},
        t \in {NoCutoff}}
    \cup
    {[mode |-> m, objs |-> o, take |-> t] :
        m \in {"taiko"}, o \in {x \in SeqsUpTo(ChainObjects("taiko"), MaxChain) : Sorted(x)},
        t \in {NoCutoff}}

(***************************************************************************)
(* Inputs of the function calls                                            *)
(***************************************************************************)
MaxPeaks == 2

\* the mono stamina skill sees a subset of what the stamina skill sees
TaikoEvalInputs ==
    {in \in [peaks : SeqsUpTo([rhythm : {"Zero", "Pos"}, reading : {"Zero", "Pos"},
                               color : {"Zero", "Pos"}, stamina : {"Zero", "Pos"}],
                              MaxPeaks),
             mono_stamina : {"Zero", "Pos"}, is_relax : BOOLEAN, is_convert : BOOLEAN] :
        in.mono_stamina = "Pos" => SkillDifficultyValue(in.peaks, "stamina") = "Pos"}

MaxNested == 2

NestedInputs ==
    [objects : SeqsUpTo(
         {[kind |-> "Circle", repeat_count |-> 0, tick_count |-> 0, duration |-> 0],
          [kind |-> "Slider", repeat_count |-> 0, tick_count |-> 0, duration |-> 0],
          [kind |-> "Slider", repeat_count |-> 1, tick_count |-> 3, duration |-> 0],
          [kind |-> "Spinner", repeat_count |-> 0, tick_count |-> 0, duration |-> 0],
          [kind |-> "Spinner", repeat_count |-> 0, tick_count |-> 0, duration |-> 3100]},
         MaxNested),
     passed_objects : 0..MaxNested]

MaxEvalChain == 35

\* a chain of n objects `gap` ms apart, with `extra` ms more before object
\* jump_at, which is a spinner when sp holds; every other object is a slider
\* that travels, every third one is stacked on its predecessor
EvalChain(n, gap, jump_at, extra, sp) ==
    [i \in 1..n |->
        [idx |-> i - 1,
         start_time |-> i * gap + (IF i - 1 >= jump_at THEN extra ELSE 0),
         delta_time |-> gap + (IF i - 1 = jump_at THEN extra ELSE 0),
         is_spinner |-> (sp /\ i - 1 = jump_at),
         adjusted_delta_time |->
             Max(gap + (IF i - 1 = jump_at THEN extra ELSE 0), MIN_DELTA_TIME),
         travel_dist |-> IF i % 2 = 0 THEN 60 ELSE 0,
         min_jump_dist |-> IF i % 3 = 0 THEN 0 ELSE 90,
         small_circle_bonus |-> 1]]

\* evaluator calls: curr is any object of the chain
EvalInputs ==
    {[diff_objects |-> EvalChain(n, gap, jump_at, extra, sp), curr |-> c,
      hit_window |-> hw, autopilot |-> ap] :
        n \in {1, 2, 3, 5, MaxEvalChain - 1, MaxEvalChain}, gap \in {100, 160, 2000},
        jump_at \in {2, MaxEvalChain - 1}, extra \in {0, 300}, sp \in BOOLEAN,
        c \in 0..(MaxEvalChain - 1), hw \in {50, 300}, ap \in BOOLEAN}

MaxStrains == 3

\* strain lists in thousandths: 0.0, 0.5 and 2.0
StrainLists ==
    UNION {[1..n -> {0, 500, 2000}] : n \in 0..MaxStrains}

\* a strain list with a difficulty value of 0.0, 1.0 or 20.0, in thousandths
SoftCountInputs ==
    {[strains |-> l, difficulty_value |-> d] : l \in StrainLists, d \in {0, 1000, 20000}}

\* two palpable objects, the catcher's earlier position and the map's rates;
\* the times are even so that clock_rate 2 divides them
CatchNewInputs ==
    {[hit_object |-> [effective_x |-> x, start_time |-> t, hyper_dash |-> FALSE,
                      dist_to_hyper_dash |-> 0],
      last_object |-> [effective_x |-> lx, start_time |-> 0, hyper_dash |-> hd,
                       dist_to_hyper_dash |-> d],
      clock_rate |-> cr, scaling_factor |-> sf, last_player_pos |-> lp, idx |-> i] :
        x \in {0, 20, 200}, t \in {0, 60, 100, 1000}, lx \in {0, 30, 200},
        hd \in BOOLEAN, d \in {0, 50}, cr \in {1, 2}, sf \in {1, 2},
        lp \in {None, Some(0), Some(120)}, i \in {0, 1}}

\* an osu hit object, its predecessor, and the difficulty objects of up to
\* two predecessors as the construction loop hands them over
OsuNewInputs ==
    {[hit_object |-> o[3], last_object |-> o[2],
      last_diff_obj |->
          IF prior >= 1 THEN Some(OsuDifficultyObjectNew(o[2], o[1], None, None, prior - 1))
          ELSE None,
      last_last_diff_obj |->
          IF prior >= 2 THEN Some(OsuDifficultyObjectNew(o[1], o[1], None, None, 0))
          ELSE None,
      idx |-> prior] :
        o \in {x \in [1..3 -> ChainObjects("osu")] : Sorted(x)}, prior \in 0..2}

MaxSliderNested == 3

\* fresh difficulty objects of sliders that start at 0 and last 40 or 200 ms,
\* with nested objects in time order
SliderInputs ==
    {[idx |-> 0,
      base |-> [kind |-> "Slider", start_time |-> 0, end_time |-> d, nested_objects |-> n],
      start_time |-> 0, delta_time |-> 0, adjusted_delta_time |-> MIN_DELTA_TIME,
      min_jump_time |-> 0, travel_time |-> 0, lazy_end_pos |-> None,
      lazy_travel_time |-> 0, angle |-> None] :
        d \in {40, 200},
        n \in {x \in SeqsUpTo([kind : {"Tick", "Repeat", "Tail"}, start_time : {10, 170, 190}],
                             MaxSliderNested) : Sorted(x)}}

MaxManiaNotes == 3

\* notes and 3000 ms holds on whole seconds, in time order
ManiaStrainInputs ==
    {[objs |-> x] :
        x \in {y \in SeqsUpTo({[start_time |-> t, end_time |-> t + h, column |-> c,
                                 kind |-> "Circle"] :
                                    t \in {0, 1000, 5000}, h \in {0, 3000},
                                    c \in 1..TotalColumns},
                               MaxManiaNotes) : Sorted(y)}}

\* four fruits 100 or 1200 ms apart, the chain built from them and the object
\* to evaluate
MovementInputs ==
    {[diff_objects |->
          CatchCreateDifficultyObjects(
              [k \in 1..4 |-> [effective_x |-> x[k], start_time |-> k * gap,
                               hyper_dash |-> (hd = k),
                               dist_to_hyper_dash |-> IF hd = k THEN 0 ELSE d]], cr),
      curr |-> c, clock_rate |-> cr] :
        x \in [1..4 -> {0, 40, 200}], gap \in {100, 1200}, hd \in 0..3, d \in {10, 50},
        cr \in {1, 2}, c \in 0..2}

MaxDeltas == 4

\* taiko hit objects by delta time, in any order, some no longer alive, and a
\* margin of error
NormalizeInputs ==
    {[hit_objects |-> h, margin_of_error |-> m] :
        h \in SeqsUpTo({None} \cup {Some([delta_time |-> d]) : d \in {0, 2, 4, 6}}, MaxDeltas),
        m \in {0, 2, 4}}

\* small maps by circles and sliders (a slider gives 2 combo) with a score
\* state whose combo does not exceed the map's
MissCountInputs ==
    {[state |-> [max_combo |-> c, n100 |-> n100, n50 |-> n50, misses |-> m],
      attrs |-> [n_circles |-> a[1], n_sliders |-> a[2], max_combo |-> a[1] + 2 * a[2]]] :
        a \in {<<0, 0>>, <<2, 0>>, <<0, 1>>, <<1, 1>>, <<2, 1>>, <<0, 2>>},
        c \in 0..4, n100 \in 0..1, n50 \in 0..1, m \in 0..2}

\* every call FnSpec makes: the function and its arguments
FnCalls ==
    {[fn |-> "TaikoEval", in |-> in] : in \in TaikoEvalInputs}
    \cup {[fn |-> "NestedCalculate", in |-> in] : in \in NestedInputs}
    \cup {[fn |-> f, in |-> in] :
             f \in {"SpeedEvaluator", "RhythmEvaluator"},
             in \in {e \in EvalInputs : e.curr < Len(e.diff_objects)}}
    \cup {[fn |-> f, in |-> in] :
             f \in {"CountTopWeightedSliders", "GetDifficultSliders", "RelevantNoteCount"},
             in \in SoftCountInputs}
    \cup {[fn |-> "CatchDifficultyObjectNew", in |-> in] : in \in CatchNewInputs}
    \cup {[fn |-> "OsuDifficultyObjectNew", in |-> in] : in \in OsuNewInputs}
    \cup {[fn |-> "ComputeSliderCursorPos", in |-> in] : in \in SliderInputs}
    \cup {[fn |-> "ManiaStrainValues", in |-> in] : in \in ManiaStrainInputs}
    \cup {[fn |-> "MovementEvaluator", in |-> in] : in \in MovementInputs}
    \cup {[fn |-> "Normalize", in |-> in] : in \in NormalizeInputs}
    \cup {[fn |-> "CalculateMaximumComboBasedMissCount", in |-> in] :
             in \in {i \in MissCountInputs : i.state.max_combo <= i.attrs.max_combo}}

(***************************************************************************)
(* Initial states, actions and specifications                              *)
(***************************************************************************)
ScoreIdle ==
    /\ hit_objects = <<>>
    /\ breaks = <<>>
    /\ map_attrs = [hp |-> 0, od |-> 0, cs |-> 0]
    /\ sim = NewGradual
    /\ returned = <<>>
    /\ hung = FALSE

GenIdle ==
    /\ params = None
    /\ result = None

PerfIdle ==
    /\ perf = None
    /\ diff_attrs = None
    /\ outcome = None

ChainIdle ==
    /\ chain_in = None
    /\ build = None

FnIdle ==
    /\ call = None
    /\ ret = None

ScoreInit ==
    /\ hit_objects \in {o \in SeqsUpTo(OsuObjects, MaxObjects) : Sorted(o)}
    /\ breaks \in SeqsUpTo(BreakPeriods, MaxBreaks)
    /\ map_attrs \in MapAttrs
    /\ sim = NewGradual
    /\ returned = <<>>
    /\ hung = FALSE
    /\ GenIdle
    /\ PerfIdle
    /\ ChainIdle
    /\ FnIdle

\* one call of simulate_next with the next object of the map
SimulateNext ==
    /\ ~hung
    /\ Len(returned) < Len(hit_objects)
    /\ LET obj == hit_objects[Len(returned) + 1]
           lp == BreakLoop(sim, breaks, obj)
       IN  IF lp.diverged
           THEN /\ hung' = TRUE
                /\ sim' = lp.s
                /\ returned' = returned
           ELSE LET s2 == GradualSimulateNext(lp.s, map_attrs, obj)
                IN  /\ sim' = s2
                    /\ returned' = Append(returned, s2.attrs)
                    /\ hung' = FALSE
    /\ UNCHANGED <<hit_objects, breaks, map_attrs, genVars, perfVars, chainVars, fnVars>>

ScoreNext == SimulateNext

Spec == ScoreInit /\ [][ScoreNext]_vars

GenInit ==
    /\ params \in {Some(p) : p \in ParamsSet}
    /\ result = None
    /\ ScoreIdle
    /\ PerfIdle
    /\ ChainIdle
    /\ FnIdle

\* Closest::generate_hitresults(&params)
CallClosest ==
    /\ result = None
    /\ result' = Some([gen |-> "Closest", hr |-> ClosestGenerateHitresults(params[1])])
    /\ UNCHANGED <<params, scoreVars, perfVars, chainVars, fnVars>>

\* Fast::generate_hitresults(&params)
CallFast ==
    /\ result = None
    /\ result' = Some([gen |-> "Fast", hr |-> FastGenerateHitresults(params[1])])
    /\ UNCHANGED <<params, scoreVars, perfVars, chainVars, fnVars>>

GenNext == CallClosest \/ CallFast

GenSpec == GenInit /\ [][GenNext]_vars

PerfInit ==
    /\ perf \in PerfSet
    /\ diff_attrs \in AttrsSet
    /\ outcome = None
    /\ ScoreIdle
    /\ GenIdle
    /\ ChainIdle
    /\ FnIdle

\* OsuPerformance::generate_state on a freshly configured builder
GenerateStateCall ==
    /\ outcome = None
    /\ \E tick \in TickPairsFor(perf) :
          LET r == GenerateState(perf, diff_attrs, tick)
          IN  /\ outcome' = Some([state |-> r.state, generated |-> r.generated,
                                   n_objects |-> r.n_objects, before |-> perf])
              /\ perf' = PerfAfter(perf, r.state)
    /\ UNCHANGED <<diff_attrs, scoreVars, genVars, chainVars, fnVars>>

PerfNext == GenerateStateCall

PerfSpec == PerfInit /\ [][PerfNext]_vars

ChainInit ==
    /\ chain_in \in {Some(c) : c \in ChainInputs}
    /\ build = Some([pc |-> "start", last |-> 0, next |-> 0, chain |-> <<>>,
                      per_column_objects |-> [c \in 1..TotalColumns |-> <<>>]])
    /\ ScoreIdle
    /\ GenIdle
    /\ PerfIdle
    /\ FnIdle

\* create_difficulty_objects takes the first predecessor, or returns an empty chain
CreateStart ==
    /\ build[1].pc = "start"
    /\ build' = Some(CASE chain_in[1].mode = "osu" ->
                              OsuCreateStart(chain_in[1].objs, chain_in[1].take)
                        [] chain_in[1].mode = "mania" -> ManiaCreateStart(chain_in[1].objs)
                        [] chain_in[1].mode = "taiko" -> TaikoCreateStart(chain_in[1].objs))
    /\ UNCHANGED <<chain_in, scoreVars, genVars, perfVars, fnVars>>

\* one iteration of the construction loop: build and push one difficulty object
CreateStep ==
    /\ build[1].pc = "loop"
    /\ build[1].next <= Len(chain_in[1].objs)
    /\ build' = Some(CASE chain_in[1].mode = "osu" ->
                              OsuCreateStep(build[1], chain_in[1].objs)
                        [] chain_in[1].mode = "mania" ->
                              ManiaCreateStep(build[1], chain_in[1].objs)
                        [] chain_in[1].mode = "taiko" ->
                              TaikoCreateStep(build[1], chain_in[1].objs))
    /\ UNCHANGED <<chain_in, scoreVars, genVars, perfVars, fnVars>>

\* the iterator is exhausted: create_difficulty_objects returns the chain
CreateFinish ==
    /\ build[1].pc = "loop"
    /\ build[1].next > Len(chain_in[1].objs)
    /\ build' = Some([build[1] EXCEPT !.pc = "done"])
    /\ UNCHANGED <<chain_in, scoreVars, genVars, perfVars, fnVars>>

ChainNext == CreateStart \/ CreateStep \/ CreateFinish

ChainSpec == ChainInit /\ [][ChainNext]_vars

FnInit ==
    /\ call \in {Some(c) : c \in FnCalls}
    /\ ret = None
    /\ ScoreIdle
    /\ GenIdle
    /\ PerfIdle
    /\ ChainIdle

\* taiko's DifficultyValues::eval on the skills of a map
CallTaikoEval ==
    /\ ret = None
    /\ call[1].fn = "TaikoEval"
    /\ ret' = Some(TaikoEval(call[1].in))
    /\ UNCHANGED <<call, scoreVars, genVars, perfVars, chainVars>>

\* NestedScorePerObject::calculate on the first passed_objects objects
CallNestedCalculate ==
    /\ ret = None
    /\ call[1].fn = "NestedCalculate"
    /\ ret' = Some(NestedCalculate(call[1].in))
    /\ UNCHANGED <<call, scoreVars, genVars, perfVars, chainVars>>

\* SpeedEvaluator::evaluate_diff_of for one object of a chain
CallSpeedEvaluator ==
    /\ ret = None
    /\ call[1].fn = "SpeedEvaluator"
    /\ ret' = Some(SpeedEvaluator(call[1].in.diff_objects[call[1].in.curr + 1],
                                  call[1].in.diff_objects, call[1].in.hit_window,
                                  call[1].in.autopilot))
    /\ UNCHANGED <<call, scoreVars, genVars, perfVars, chainVars>>

\* RhythmEvaluator::evaluate_diff_of for one object of a chain
CallRhythmEvaluator ==
    /\ ret = None
    /\ call[1].fn = "RhythmEvaluator"
    /\ ret' = Some(RhythmEvaluator(call[1].in.diff_objects[call[1].in.curr + 1],
                                   call[1].in.diff_objects, call[1].in.hit_window))
    /\ UNCHANGED <<call, scoreVars, genVars, perfVars, chainVars>>

CallCountTopWeightedSliders ==
    /\ ret = None
    /\ call[1].fn = "CountTopWeightedSliders"
    /\ ret' = Some(CountTopWeightedSliders(call[1].in.strains, call[1].in.difficulty_value))
    /\ UNCHANGED <<call, scoreVars, genVars, perfVars, chainVars>>

CallGetDifficultSliders ==
    /\ ret = None
    /\ call[1].fn = "GetDifficultSliders"
    /\ ret' = Some(GetDifficultSliders(call[1].in.strains))
    /\ UNCHANGED <<call, scoreVars, genVars, perfVars, chainVars>>

CallRelevantNoteCount ==
    /\ ret = None
    /\ call[1].fn = "RelevantNoteCount"
    /\ ret' = Some(RelevantNoteCount(call[1].in.strains))
    /\ UNCHANGED <<call, scoreVars, genVars, perfVars, chainVars>>

CallCatchDifficultyObjectNew ==
    /\ ret = None
    /\ call[1].fn = "CatchDifficultyObjectNew"
    /\ ret' = Some(CatchDifficultyObjectNew(call[1].in.hit_object, call[1].in.last_object,
                                            call[1].in.clock_rate, call[1].in.scaling_factor,
                                            call[1].in.last_player_pos, call[1].in.idx))
    /\ UNCHANGED <<call, scoreVars, genVars, perfVars, chainVars>>

CallOsuDifficultyObjectNew ==
    /\ ret = None
    /\ call[1].fn = "OsuDifficultyObjectNew"
    /\ ret' = Some(OsuDifficultyObjectNew(call[1].in.hit_object, call[1].in.last_object,
                                          call[1].in.last_diff_obj,
                                          call[1].in.last_last_diff_obj, call[1].in.idx))
    /\ UNCHANGED <<call, scoreVars, genVars, perfVars, chainVars>>

CallComputeSliderCursorPos ==
    /\ ret = None
    /\ call[1].fn = "ComputeSliderCursorPos"
    /\ ret' = Some(ComputeSliderCursorPos(call[1].in))
    /\ UNCHANGED <<call, scoreVars, genVars, perfVars, chainVars>>

CallManiaStrainValues ==
    /\ ret = None
    /\ call[1].fn = "ManiaStrainValues"
    /\ ret' = Some(ManiaStrainValues(call[1].in.objs))
    /\ UNCHANGED <<call, scoreVars, genVars, perfVars, chainVars>>

CallMovementEvaluator ==
    /\ ret = None
    /\ call[1].fn = "MovementEvaluator"
    /\ ret' = Some(MovementEvaluator(call[1].in.diff_objects[call[1].in.curr + 1],
                                     call[1].in.diff_objects, call[1].in.clock_rate))
    /\ UNCHANGED <<call, scoreVars, genVars, perfVars, chainVars>>

CallNormalize ==
    /\ ret = None
    /\ call[1].fn = "Normalize"
    /\ ret' = Some(Normalize(call[1].in.hit_objects, call[1].in.margin_of_error))
    /\ UNCHANGED <<call, scoreVars, genVars, perfVars, chainVars>>

CallCalculateMaximumComboBasedMissCount ==
    /\ ret = None
    /\ call[1].fn = "CalculateMaximumComboBasedMissCount"
    /\ ret' = Some(CalculateMaximumComboBasedMissCount(call[1].in.state, call[1].in.attrs))
    /\ UNCHANGED <<call, scoreVars, genVars, perfVars, chainVars>>

\* the functions FnSpec calls
FnNext ==
    \/ CallTaikoEval
    \/ CallNestedCalculate
    \/ CallSpeedEvaluator
    \/ CallRhythmEvaluator
    \/ CallCountTopWeightedSliders
    \/ CallGetDifficultSliders
    \/ CallRelevantNoteCount
    \/ CallCatchDifficultyObjectNew
    \/ CallOsuDifficultyObjectNew
    \/ CallComputeSliderCursorPos
    \/ CallManiaStrainValues
    \/ CallMovementEvaluator
    \/ CallNormalize
    \/ CallCalculateMaximumComboBasedMissCount

FnSpec == FnInit /\ [][FnNext]_vars

(***************************************************************************)
(* Properties of the legacy score simulators                               *)
(***************************************************************************)

\* the four attributes the comparison is about
Fields(a) == <<a.accuracy_score, a.combo_score, a.bonus_score, a.max_combo>>

(* C1: the k-th call of simulate_next returns, and returns the same
   accuracy_score, combo_score, bonus_score and max_combo as the batch
   simulation with passed_objects = k *)
C1_GradualEqualsBatch ==
    /\ ~hung
    /\ \A k \in 1..Len(returned) :
          Fields(returned[k]) = Fields(BatchSimulate(hit_objects, breaks, map_attrs, k))

(***************************************************************************)
(* Properties of the hit-result generators                                 *)
(***************************************************************************)
ClosestReturned == result /= None /\ result[1].gen = "Closest"

FastReturned == result /= None /\ result[1].gen = "Fast"

Supplied(opt, v) == IsSome(opt) => v = opt[1]

\* every assignment the caller's constraints allow: same misses, summing to
\* total_hits, agreeing with every supplied count
Candidates(p, misses) ==
    {h \in [n300 : 0..p.total_hits, n100 : 0..p.total_hits, n50 : 0..p.total_hits,
            misses : {misses}] :
        /\ TotalHits(h) = p.total_hits
        /\ Supplied(p.n300, h.n300)
        /\ Supplied(p.n100, h.n100)
        /\ Supplied(p.n50, h.n50)}

(* C5: no assignment with the same misses that sums to total_hits and
   agrees with every supplied count is strictly closer to the target accuracy
   than the result of Closest *)
C5_ClosestIsClosest ==
    ClosestReturned =>
        \A h \in Candidates(params[1], result[1].hr.misses) :
            ~RatLess(Dist(params[1], h), Dist(params[1], result[1].hr))

(* C6: the counts Closest returns always add up: n300 + n100 + n50 + misses
   = total_hits *)
C6_ClosestSumsToTotal ==
    ClosestReturned => TotalHits(result[1].hr) = params[1].total_hits

AllSupplied(p) == IsSome(p.n300) /\ IsSome(p.n100) /\ IsSome(p.n50)

(* C6 as amended: the counts Closest returns never exceed total_hits, and
   they add up to total_hits whenever at least one of n300, n100, n50 is
   left to the generator or the supplied counts reach
   total_hits - min(misses, total_hits) *)
C6_ClosestSumAmended ==
    ClosestReturned =>
        /\ TotalHits(result[1].hr) <= params[1].total_hits
        /\ (~AllSupplied(params[1])
              \/ UnwrapOr(params[1].n300, 0) + UnwrapOr(params[1].n100, 0)
                     + UnwrapOr(params[1].n50, 0)
                   >= params[1].total_hits - Min(params[1].misses, params[1].total_hits))
           => TotalHits(result[1].hr) = params[1].total_hits

\* Closest filled n300 and n100 around a supplied n50
C6_Witness ==
    /\ ClosestReturned
    /\ ~IsSome(params[1].n300) /\ ~IsSome(params[1].n100)
    /\ IsSome(params[1].n50) /\ params[1].n50[1] > 0
    /\ result[1].hr.n50 > 0
    /\ result[1].hr.n300 + result[1].hr.n100 > 0

SuppliedSum(p) == UnwrapOr(p.n300, 0) + UnwrapOr(p.n100, 0) + UnwrapOr(p.n50, 0)

SuppliedFit(p) == SuppliedSum(p) <= p.total_hits - Min(p.misses, p.total_hits)

(* C7: when the supplied counts fit into total_hits - min(misses, total_hits),
   Closest returns every supplied count unchanged *)
C7_ClosestKeepsSupplied ==
    (ClosestReturned /\ SuppliedFit(params[1])) =>
        /\ Supplied(params[1].n300, result[1].hr.n300)
        /\ Supplied(params[1].n100, result[1].hr.n100)
        /\ Supplied(params[1].n50, result[1].hr.n50)

\* Closest kept a supplied n100 that fits next to the misses
C7_Witness ==
    /\ ClosestReturned
    /\ SuppliedFit(params[1])
    /\ ~IsSome(params[1].n300) /\ ~IsSome(params[1].n50)
    /\ IsSome(params[1].n100) /\ params[1].n100[1] > 0
    /\ params[1].misses > 0
    /\ result[1].hr.n100 = params[1].n100[1]

(* C8: Fast returns misses = min(params.misses, total_hits) and
   n300 + n100 + n50 = total_hits - misses *)
C8_FastSumsToTotal ==
    FastReturned =>
        /\ result[1].hr.misses = Min(params[1].misses, params[1].total_hits)
        /\ result[1].hr.n300 + result[1].hr.n100 + result[1].hr.n50
               = params[1].total_hits - result[1].hr.misses

\* Fast distributed hits over n300 and n100 next to a miss
C8_Witness ==
    /\ FastReturned
    /\ result[1].hr.misses > 0
    /\ result[1].hr.n300 > 0
    /\ result[1].hr.n100 > 0

(***************************************************************************)
(* Properties of generate_state                                            *)
(***************************************************************************)
Returned == outcome /= None

\* a supplied count as generate_state keeps it: capped at n_objects - misses
Kept(opt, n_remaining) == IF IsSome(opt) THEN Min(opt[1], n_remaining) ELSE 0

\* the one bucket that receives the hits not accounted for
FillBucket(pf) ==
    IF pf.hitresult_priority = "BestCase"
    THEN (IF ~IsSome(pf.n300) THEN "n300"
          ELSE IF ~IsSome(pf.n100) THEN "n100"
          ELSE IF ~IsSome(pf.n50) THEN "n50" ELSE "n300")
    ELSE (IF ~IsSome(pf.n50) THEN "n50"
          ELSE IF ~IsSome(pf.n100) THEN "n100"
          ELSE IF ~IsSome(pf.n300) THEN "n300" ELSE "n50")

(* C2: without an accuracy, generate_state keeps every supplied count (capped
   at n_objects - misses), leaves every other unspecified count at 0 and puts
   all hits still unaccounted for into the one bucket the priority selects *)
C2_FillRemainingBucket ==
    (Returned /\ ~IsSome(outcome[1].before.acc)
       /\ outcome[1].before.hitresult_priority \in {"BestCase", "WorstCase"}) =>
        LET pf == outcome[1].before
            h == outcome[1].state.hitresults
            n_remaining == outcome[1].n_objects - h.misses
            k300 == Kept(pf.n300, n_remaining)
            k100 == Kept(pf.n100, n_remaining)
            k50 == Kept(pf.n50, n_remaining)
            unaccounted == Max(n_remaining - (k300 + k100 + k50), 0)
            b == FillBucket(pf)
        IN  /\ h.n300 = k300 + (IF b = "n300" THEN unaccounted ELSE 0)
            /\ h.n100 = k100 + (IF b = "n100" THEN unaccounted ELSE 0)
            /\ h.n50 = k50 + (IF b = "n50" THEN unaccounted ELSE 0)

\* WorstCase with n50 supplied: the hits unaccounted for went to n100
C2_Witness ==
    /\ Returned
    /\ ~IsSome(outcome[1].before.acc)
    /\ outcome[1].before.hitresult_priority = "WorstCase"
    /\ IsSome(outcome[1].before.n50) /\ ~IsSome(outcome[1].before.n100)
    /\ outcome[1].state.hitresults.n100 > 0
    /\ outcome[1].state.hitresults.n300 = Kept(outcome[1].before.n300,
                                               outcome[1].n_objects
                                                 - outcome[1].state.hitresults.misses)

(* C3: with an accuracy, the returned state carries exactly the n300, n100
   and n50 the hit-result generator produced *)
C3_StateCarriesGenerated ==
    (Returned /\ IsSome(outcome[1].before.acc)) =>
        /\ outcome[1].state.hitresults.n300 = outcome[1].generated[1].n300
        /\ outcome[1].state.hitresults.n100 = outcome[1].generated[1].n100
        /\ outcome[1].state.hitresults.n50 = outcome[1].generated[1].n50

(* C4: the returned state always satisfies n300 + n100 + n50 + misses
   = n_objects = min(passed_objects, attrs.n_objects()) *)
C4_StateSumsToNObjects ==
    Returned =>
        /\ outcome[1].n_objects
               = Min(outcome[1].before.passed_objects, NObjects(diff_attrs))
        /\ TotalHits(outcome[1].state.hitresults) = outcome[1].n_objects

(***************************************************************************)
(* Properties of the chain construction                                    *)
(***************************************************************************)
Building == build /= None

ChainDone == Building /\ build[1].pc = "done"

(* C9: in every mode the i-th difficulty object appended (0-based) carries
   idx = i, so idx is the position in the chain and strictly increases in
   construction order, along with start time *)
C9_IdxIsPosition ==
    Building =>
        /\ \A i \in 1..Len(build[1].chain) : build[1].chain[i].idx = i - 1
        /\ \A i, j \in 1..Len(build[1].chain) :
              i < j => /\ build[1].chain[i].idx < build[1].chain[j].idx
                       /\ build[1].chain[i].start_time <= build[1].chain[j].start_time

\* a finished chain of at least three difficulty objects
C9_Witness == ChainDone /\ Len(build[1].chain) >= 3

(* C10: without a cutoff, every mode yields max(n - 1, 0) difficulty objects
   for n hit objects, hence an empty chain for 0 or 1 hit objects *)
C10_OnePerObjectButFirst ==
    (ChainDone /\ chain_in[1].take = NoCutoff) =>
        Len(build[1].chain) = Max(Len(chain_in[1].objs) - 1, 0)

(* C10 as amended: osu and mania yield max(n - 1, 0) difficulty objects,
   taiko, which also skips the first hit object as a predecessor, yields
   max(n - 2, 0); 0 or 1 hit objects yield an empty chain in every mode *)
C10_ChainLengthByMode ==
    (ChainDone /\ chain_in[1].take = NoCutoff) =>
        /\ chain_in[1].mode \in {"osu", "mania"} =>
              Len(build[1].chain) = Max(Len(chain_in[1].objs) - 1, 0)
        /\ chain_in[1].mode = "taiko" =>
              Len(build[1].chain) = Max(Len(chain_in[1].objs) - 2, 0)
        /\ Len(chain_in[1].objs) <= 1 => build[1].chain = <<>>

\* taiko finished a map of three hit objects with one difficulty object
C10_Witness ==
    /\ ChainDone
    /\ chain_in[1].take = NoCutoff
    /\ chain_in[1].mode = "taiko"
    /\ Len(chain_in[1].objs) = 3
    /\ Len(build[1].chain) = 1

(***************************************************************************)
(* Properties of single function calls                                     *)
(***************************************************************************)
Called(fn) == call /= None /\ ret /= None /\ call[1].fn = fn

(* C11: on a map without hit objects nothing divides by zero and every
   numeric output is 0, never NaN: taiko's eval yields 0 for rhythm, reading,
   color and stamina when every skill difficulty value is 0, and
   NestedScorePerObject::calculate yields 0 when no object was processed *)
C11_ZeroInputYieldsZero ==
    /\ (Called("TaikoEval")
          /\ \A sk \in {"rhythm", "reading", "color", "stamina"} :
                SkillDifficultyValue(call[1].in.peaks, sk) = "Zero")
       => /\ ret[1].rhythm = "Zero"
          /\ ret[1].reading = "Zero"
          /\ ret[1].color = "Zero"
          /\ ret[1].stamina = "Zero"
    /\ (Called("NestedCalculate")
          /\ (call[1].in.objects = <<>> \/ call[1].in.passed_objects = 0))
       => (~ret[1].nan /\ ret[1].num = 0)

\* the idx of the earlier objects of the chain that lie in column c
EarlierInColumn(chain, d, c) ==
    {chain[j].idx : j \in {k \in 1..Len(chain) : chain[k].idx < d.idx /\ chain[k].column = c}}

(* C12: for every mania difficulty object d and column c, d.prev_hit_objects[c]
   is the object with the greatest idx below d.idx in column c, or empty when
   no earlier object lies in column c; it never refers to d or a later object *)
C12_PrevHitObjectsSnapshot ==
    (Building /\ chain_in[1].mode = "mania") =>
        \A i \in 1..Len(build[1].chain) : \A c \in 1..TotalColumns :
            LET d == build[1].chain[i]
                earlier == EarlierInColumn(build[1].chain, d, c)
            IN  IF earlier = {} THEN d.prev_hit_objects[c] = None
                ELSE /\ IsSome(d.prev_hit_objects[c])
                     /\ d.prev_hit_objects[c][1] \in earlier
                     /\ \A j \in earlier : j <= d.prev_hit_objects[c][1]
                     /\ d.prev_hit_objects[c][1] < d.idx

\* a finished mania chain whose last object sees an older object in one column
\* and its predecessor in the other
C12_Witness ==
    /\ ChainDone
    /\ chain_in[1].mode = "mania"
    /\ Len(build[1].chain) >= 3
    /\ LET d == build[1].chain[Len(build[1].chain)]
       IN  \E c \in 1..TotalColumns :
              /\ IsSome(d.prev_hit_objects[c])
              /\ d.prev_hit_objects[c][1] < d.idx - 1

EvaluatorCalled == Called("SpeedEvaluator") \/ Called("RhythmEvaluator")

(* C13: no evaluator reads a chain object with an index greater than
   curr.idx, so the value computed for curr is the same on the chain that
   ends with curr and on every longer chain *)
C13_NoForwardReads ==
    EvaluatorCalled =>
        LET in == call[1].in
            upto_curr == SubSeq(in.diff_objects, 1, in.curr + 1)
            on_prefix == IF call[1].fn = "SpeedEvaluator"
                         THEN SpeedEvaluator(upto_curr[in.curr + 1], upto_curr, in.hit_window,
                                             in.autopilot)
                         ELSE RhythmEvaluator(upto_curr[in.curr + 1], upto_curr, in.hit_window)
        IN  /\ \A i \in ret[1].reads : i <= in.curr
            /\ ret[1].doubletap = on_prefix.doubletap

(* C13 as amended: osu's SpeedEvaluator and RhythmEvaluator read curr, earlier
   objects and, unless curr is a spinner, the object directly after curr when
   the chain has one (curr.next(0), for the doubletap penalty); no object
   after idx + 1 is read, so the value for curr is the same on the chain that
   ends with the object after curr and on every longer chain *)
C13_ReadsAtMostNext ==
    EvaluatorCalled =>
        LET in == call[1].in
            upto_next == SubSeq(in.diff_objects, 1, Min(in.curr + 2, Len(in.diff_objects)))
            on_prefix == IF call[1].fn = "SpeedEvaluator"
                         THEN SpeedEvaluator(upto_next[in.curr + 1], upto_next, in.hit_window,
                                             in.autopilot)
                         ELSE RhythmEvaluator(upto_next[in.curr + 1], upto_next, in.hit_window)
        IN  /\ \A i \in ret[1].reads : i <= in.curr + 1
            /\ (in.curr + 1 < Len(in.diff_objects)
                  /\ ~in.diff_objects[in.curr + 1].is_spinner)
               => (in.curr + 1) \in ret[1].reads
            /\ ret[1] = on_prefix

\* the speed evaluator applied the doubletap penalty because of the next object
C13_Witness ==
    /\ Called("SpeedEvaluator")
    /\ call[1].in.curr + 2 < Len(call[1].in.diff_objects)
    /\ (call[1].in.curr + 1) \in ret[1].reads
    /\ ret[1].doubletap

\* the earlier objects a RhythmEvaluator call has read
PreviousReads == {i \in ret[1].reads : i < call[1].in.curr}

\* how long before curr the chain object with index i starts
AgeOf(i) ==
    LET in == call[1].in
    IN  in.diff_objects[in.curr + 1].start_time - in.diff_objects[i + 1].start_time

(* C14: RhythmEvaluator::evaluate_diff_of reads only previous objects at most
   HISTORY_OBJECTS_MAX positions before curr that start less than
   HISTORY_TIME_MAX ms before curr *)
C14_RhythmWindow ==
    Called("RhythmEvaluator") =>
        \A i \in PreviousReads :
            /\ call[1].in.curr - i <= HISTORY_OBJECTS_MAX
            /\ AgeOf(i) < HISTORY_TIME_MAX

(* C14 as amended: every previous object RhythmEvaluator reads lies at most
   HISTORY_OBJECTS_MAX positions before curr; all of them start less than
   HISTORY_TIME_MAX ms before curr except at most the two oldest ones read
   (prev_obj and last_obj of the first loop pass), which may be older *)
C14_RhythmWindowButTwoOldest ==
    Called("RhythmEvaluator") =>
        LET far == {i \in PreviousReads : AgeOf(i) >= HISTORY_TIME_MAX}
        IN  /\ \A i \in PreviousReads : call[1].in.curr - i <= HISTORY_OBJECTS_MAX
            /\ Cardinality(far) <= 2
            /\ \A f \in far : \A i \in PreviousReads \ far : f < i

\* a rhythm evaluation whose oldest read is 32 positions and 5000 ms or more back
C14_Witness ==
    /\ Called("RhythmEvaluator")
    /\ call[1].in.curr >= HISTORY_OBJECTS_MAX
    /\ (call[1].in.curr - HISTORY_OBJECTS_MAX) \in ret[1].reads
    /\ AgeOf(call[1].in.curr - HISTORY_OBJECTS_MAX) >= HISTORY_TIME_MAX
    /\ Cardinality(PreviousReads) = HISTORY_OBJECTS_MAX

\* the strain list and the divisor of a finished soft-count call
SoftCountCalled ==
    \/ Called("CountTopWeightedSliders")
    \/ Called("GetDifficultSliders")
    \/ Called("RelevantNoteCount")

SoftCountDivisor ==
    IF call[1].fn = "CountTopWeightedSliders" THEN call[1].in.difficulty_value
    ELSE MaxStrain(call[1].in.strains)

(* C15: get_difficult_sliders, count_top_weighted_sliders and
   relevant_note_count return exactly 0.0, without dividing, when the strain
   list is empty or the divisor (the greatest strain, respectively
   difficulty_value / 10) is zero *)
C15_ZeroWithoutDividing ==
    (SoftCountCalled /\ (call[1].in.strains = <<>> \/ SoftCountDivisor = 0))
        => ret[1] = SoftZero

\* a non-empty list of zero strains was counted
C15_Witness ==
    /\ Called("GetDifficultSliders")
    /\ Len(call[1].in.strains) = MaxStrains
    /\ SoftCountDivisor = 0
    /\ ret[1] = SoftZero

(* C16: count_top_weighted_sliders returns a value in [0, n] for n slider
   strains; the value lies in the enclosure [lo, hi], so it exceeds n when
   lo does *)
C16_WithinCount ==
    Called("CountTopWeightedSliders") =>
        /\ ret[1].lo >= 0
        /\ ret[1].lo <= 1000 * Len(call[1].in.strains)

(* C16 as amended: count_top_weighted_sliders returns a value in
   [0, 1.1 * n] for n slider strains, 1.1 being the max_value of each
   logistic term *)
C16_WithinScaledCount ==
    Called("CountTopWeightedSliders") =>
        /\ ret[1].lo >= 0
        /\ ret[1].lo <= ret[1].hi
        /\ ret[1].hi <= 1100 * Len(call[1].in.strains)

\* slider strains far above the consistent top strain count more than 1 each
C16_Witness ==
    /\ Called("CountTopWeightedSliders")
    /\ Len(call[1].in.strains) = MaxStrains
    /\ ret[1].divided
    /\ ret[1].lo > 1000 * Len(call[1].in.strains)

(* C18: a catch difficulty object's player_pos lies within
   NORMALIZED_HALF_CATCHER_WIDTH - ABSOLUTE_PLAYER_POSITIONING_ERROR = 25 units
   of normalized_pos, and equals normalized_pos when the previous object was
   a hyperdash *)
C18_PlayerPosNearObject ==
    Called("CatchDifficultyObjectNew") =>
        /\ Abs(ret[1].player_pos - ret[1].normalized_pos) <= 25
        /\ ret[1].last_object.hyper_dash => ret[1].player_pos = ret[1].normalized_pos

\* after a hyperdash the catcher is on the object although the clamp alone
\* would leave it at the edge of the window
C18_Witness ==
    /\ Called("CatchDifficultyObjectNew")
    /\ ret[1].last_object.hyper_dash
    /\ Abs(ret[1].last_player_pos - ret[1].normalized_pos) > 25
    /\ ret[1].player_pos = ret[1].normalized_pos
    /\ ret[1].dist_moved /= ret[1].exact_dist_moved

\* a spinner is the object built or its predecessor
SpinnerInvolved ==
    call[1].in.hit_object.kind = "Spinner" \/ call[1].in.last_object.kind = "Spinner"

(* C19: every osu difficulty object has adjusted_delta_time >= 25 and
   min_jump_time >= 25, every osu slider object has travel_time >= 25, and
   every catch difficulty object has strain_time >= 40 *)
C19_StrainTimesFloored ==
    /\ Called("OsuDifficultyObjectNew") =>
          /\ ret[1].adjusted_delta_time >= 25
          /\ ret[1].min_jump_time >= 25
          /\ ret[1].base.kind = "Slider" => ret[1].travel_time >= 25
    /\ Called("CatchDifficultyObjectNew") => ret[1].strain_time >= 40

(* C19 as amended: every osu difficulty object has adjusted_delta_time >= 25;
   its min_jump_time is >= 25 unless the object or its predecessor is a
   spinner, in which case min_jump_time is left at 0; every osu slider object
   has travel_time >= 25; every catch difficulty object has strain_time >= 40 *)
C19_FlooredButSpinnerJump ==
    /\ Called("OsuDifficultyObjectNew") =>
          /\ ret[1].adjusted_delta_time >= 25
          /\ ret[1].adjusted_delta_time >= ret[1].delta_time
          /\ IF SpinnerInvolved THEN ret[1].min_jump_time = 0
             ELSE ret[1].min_jump_time >= 25
          /\ ret[1].base.kind = "Slider" => ret[1].travel_time >= 25
    /\ Called("CatchDifficultyObjectNew") =>
          /\ ret[1].strain_time >= 40
          /\ ret[1].strain_time >= ret[1].delta_time

\* a slider right after a slider: the jump time left after the travel time
\* is below the floor
C19_Witness ==
    /\ Called("OsuDifficultyObjectNew")
    /\ call[1].in.last_object.kind = "Slider"
    /\ ret[1].base.kind = "Slider"
    /\ call[1].in.last_diff_obj /= None
    /\ ret[1].delta_time > MIN_DELTA_TIME
    /\ ret[1].adjusted_delta_time - call[1].in.last_diff_obj[1].lazy_travel_time < MIN_DELTA_TIME
    /\ ret[1].min_jump_time = MIN_DELTA_TIME
    /\ ret[1].travel_time > MIN_DELTA_TIME

\* the last tick of the slider, by its position in the stored list
LastTick(stored) ==
    CHOOSE i \in 1..Len(stored) :
        /\ stored[i].kind = "Tick"
        /\ \A j \in (i + 1)..Len(stored) : stored[j].kind /= "Tick"

\* s without its i-th element
Without(s, i) == [j \in 1..(Len(s) - 1) |-> IF j < i THEN s[j] ELSE s[j + 1]]

(* C20: when the slider's last tick starts after the tracking end time,
   compute_slider_cursor_pos visits the nested objects in their stored order
   except that the last tick comes last; nothing is dropped or duplicated and
   the slider's stored nested_objects stay as they were *)
C20_LateTickVisitedLast ==
    Called("ComputeSliderCursorPos") =>
        LET stored == call[1].in.base.nested_objects
            start_time == call[1].in.base.start_time
            duration == call[1].in.base.end_time - start_time
            tracking_end_time == Max(start_time + duration - 36, start_time + duration \div 2)
            visited == ret[1].nested_objects
        IN  /\ ret[1].this.base.nested_objects = stored
            /\ Len(visited) = Len(stored)
            /\ IF (\E i \in 1..Len(stored) : stored[i].kind = "Tick")
                     /\ stored[LastTick(stored)].start_time > tracking_end_time
               THEN /\ visited[Len(visited)] = stored[LastTick(stored)]
                    /\ Without(visited, Len(visited)) = Without(stored, LastTick(stored))
               ELSE visited = stored

\* a late last tick that had two nested objects after it
C20_Witness ==
    /\ Called("ComputeSliderCursorPos")
    /\ Len(ret[1].nested_objects) = 3
    /\ ret[1].nested_objects /= call[1].in.base.nested_objects
    /\ call[1].in.base.nested_objects[1].kind = "Tick"
    /\ ret[1].nested_objects[3].kind = "Tick"
    /\ ret[1].nested_objects[2].kind = "Tail"
    /\ ret[1].this.lazy_travel_time = call[1].in.base.nested_objects[1].start_time

(* C17: every per-object value an evaluator or a skill's strain_value_of /
   strain_value_at returns is >= 0: mania's Strain::strain_value_of, osu's
   SpeedEvaluator and catch's MovementEvaluator *)
C17_ValuesNonNegative ==
    /\ Called("ManiaStrainValues") =>
          \A i \in 1..Len(ret[1]) : /\ ret[1][i].strain_value_of >= 0
                                    /\ ret[1][i].strain_value_at >= 0
    /\ Called("SpeedEvaluator") => ret[1].sign >= 0
    /\ Called("MovementEvaluator") => ret[1].sign >= 0

(* C17 as amended: osu's SpeedEvaluator and catch's MovementEvaluator return
   values >= 0 and mania's strain_value_at, the running strain
   highest_individual_strain + overall_strain, is positive; mania's
   strain_value_of is the change of that running strain since the previous
   object and may be negative *)
C17_EvaluatorsAndRunningStrainNonNegative ==
    /\ Called("ManiaStrainValues") =>
          \A i \in 1..Len(ret[1]) :
              /\ ret[1][i].strain_value_at > 0
              /\ ret[1][i].strain_value_of
                    = ret[1][i].strain_value_at
                         - (IF i = 1 THEN 0 ELSE ret[1][i - 1].strain_value_at)
    /\ Called("SpeedEvaluator") =>
          ret[1].sign = IF call[1].in.diff_objects[call[1].in.curr + 1].is_spinner
                        THEN 0 ELSE 1
    /\ Called("MovementEvaluator") => ret[1].sign >= 0

\* a mania note after a pause: the running strain has dropped
C17_Witness ==
    /\ Called("ManiaStrainValues")
    /\ Len(ret[1]) = 2
    /\ ret[1][2].strain_value_of < 0
    /\ ret[1][2].strain_value_at > 0
    /\ ret[1][2].strain_value_at < ret[1][1].strain_value_at

(***************************************************************************)
(* Presence of the angle of an osu difficulty object                       *)
(***************************************************************************)
(* C21: an osu difficulty object's angle is present exactly when it has two
   preceding difficulty objects (idx >= 2) and none of its hit object, the
   predecessor hit object and the second predecessor hit object is a
   spinner; otherwise the angle is absent *)
C21_AngleIffTwoPriorNoSpinner ==
    (Building /\ chain_in[1].mode = "osu") =>
        \A i \in 1..Len(build[1].chain) :
            LET d == build[1].chain[i]
                objs == chain_in[1].objs
            IN  (d.angle /= None) <=>
                    /\ d.idx >= 2
                    /\ objs[i + 1].kind /= "Spinner"
                    /\ objs[i].kind /= "Spinner"
                    /\ objs[i - 1].kind /= "Spinner"

\* a finished osu chain whose third object has an angle while the first two,
\* built from the same kinds of objects, have none
C21_Witness ==
    /\ ChainDone
    /\ chain_in[1].mode = "osu"
    /\ Len(build[1].chain) = 3
    /\ \A i \in 1..4 : chain_in[1].objs[i].kind /= "Spinner"
    /\ build[1].chain[1].angle = None
    /\ build[1].chain[2].angle = None
    /\ build[1].chain[3].angle /= None

(***************************************************************************)
(* Grouping of delta times by DeltaTimeNormalizer                          *)
(***************************************************************************)
\* the group (its position in `sets`) holding the k-th distinct delta time
GroupOf(k) ==
    CHOOSE s \in 1..Len(ret[1].sets) :
        \E j \in 1..Len(ret[1].sets[s]) : ret[1].sets[s][j] = ret[1].delta_times[k]

\* the groups, one after the other, are the distinct delta times in order
GroupsPartitionInOrder ==
    LET flat[s \in 0..Len(ret[1].sets)] ==
            IF s = 0 THEN <<>> ELSE flat[s - 1] \o ret[1].sets[s]
    IN  /\ flat[Len(ret[1].sets)] = ret[1].delta_times
        /\ \A s \in 1..Len(ret[1].sets) : ret[1].sets[s] /= <<>>
        /\ \A k \in 1..(Len(ret[1].delta_times) - 1) :
              ret[1].delta_times[k] < ret[1].delta_times[k + 1]

(* C22: normalize compares each sorted distinct delta time only with its
   immediate sorted neighbour: a value is in the group of the value before it
   exactly when the two are within margin_of_error of each other *)
C22_JoinsWhenNearNeighbour ==
    Called("Normalize") =>
        /\ GroupsPartitionInOrder
        /\ \A k \in 1..(Len(ret[1].delta_times) - 1) :
              (GroupOf(k + 1) = GroupOf(k)) <=>
                  Abs(ret[1].delta_times[k + 1] - ret[1].delta_times[k])
                      <= call[1].in.margin_of_error

(* C22 as amended: normalize compares each sorted distinct delta time with
   the first, smallest value of the current group: a value is in the group
   of the value before it exactly when it is within margin_of_error of that
   group's first value, so no group spans more than margin_of_error *)
C22_JoinsWhenNearGroupStart ==
    Called("Normalize") =>
        /\ GroupsPartitionInOrder
        /\ \A k \in 1..(Len(ret[1].delta_times) - 1) :
              (GroupOf(k + 1) = GroupOf(k)) <=>
                  Abs(ret[1].delta_times[k + 1] - ret[1].sets[GroupOf(k)][1])
                      <= call[1].in.margin_of_error
        /\ \A s \in 1..Len(ret[1].sets) :
              ret[1].sets[s][Len(ret[1].sets[s])] - ret[1].sets[s][1]
                  <= call[1].in.margin_of_error

\* three distinct delta times, each within the margin of its neighbour, the
\* last beyond the margin of the first: the last one opens a second group
C22_Witness ==
    /\ Called("Normalize")
    /\ call[1].in.margin_of_error = 2
    /\ ret[1].delta_times = <<0, 2, 4>>
    /\ ret[1].sets = <<(<<0, 2>>), (<<4>>)>>

(***************************************************************************)
(* Termination of the gradual score simulator                              *)
(***************************************************************************)
(* C23: simulate_next returns for every object and every break list, also
   for an object that starts inside a break (break start < object start <=
   break end): no call stays in the while loop of score_multiplier *)
C23_SimulateNextTerminates ==
    \A k \in 1..Len(hit_objects) : k = Len(returned) + 1 => ~hung

(***************************************************************************)
(* Unsigned subtractions of OsuPerformance::calculate                      *)
(***************************************************************************)
\* calculate reaches the branch that counts dropped slider ends and missed
\* large ticks
CountsDropped == diff_attrs.n_sliders > 0 /\ ~outcome[1].before.classic

(* C24: every state generate_state returns has slider_end_hits <= n_sliders
   and large_tick_hits <= n_large_ticks, with or without an accuracy, so that
   no unsigned subtraction of calculate underflows *)
C24_NoUnsignedUnderflow ==
    Returned =>
        /\ outcome[1].state.hitresults.slider_end_hits <= diff_attrs.n_sliders
        /\ outcome[1].state.hitresults.large_tick_hits <= diff_attrs.n_large_ticks
        /\ CountsDropped =>
              /\ NSliderEndsDropped(diff_attrs, outcome[1].state) >= 0
              /\ NLargeTickMiss(diff_attrs, outcome[1].state) >= 0
              /\ diff_attrs.max_combo - NSliderEndsDropped(diff_attrs, outcome[1].state) >= 0

(***************************************************************************)
(* Full-combo threshold of the legacy score miss calculator                *)
(***************************************************************************)
(* C25: on a map with sliders, calculate_maximum_combo_based_miss_count uses
   the full-combo threshold max_combo - 0.1 * n_sliders, the threshold
   OsuPerformance::calculate uses for classic scores *)
C25_ThresholdByTenthOfSliders ==
    (Called("CalculateMaximumComboBasedMissCount") /\ call[1].in.attrs.n_sliders > 0) =>
        ret[1].full_combo_threshold = Some(ClassicFullComboThreshold(call[1].in.attrs))

====
